---- MODULE Spec2Model ----
(***************************************************************************)
(* Face AI library (src/lib/face-ai.ts): the module-level Human instance,  *)
(* its lazy initialisation flag, and the asynchronous entry points         *)
(* initHuman, detectFaces, processPhotoForEmbeddings and validateSelfie.   *)
(*                                                                         *)
(* Every async function is split at its awaits: one action runs the code   *)
(* from the call up to the first await, one action per await runs the      *)
(* continuation (the promise resolved) or the exceptional exit (the        *)
(* promise rejected).  JavaScript runs each such piece atomically and      *)
(* interleaves the pieces of concurrent calls in any order.                *)
(*                                                                         *)
(* Scores (faceScore, real, live and the thresholds) are numbers in [0,1]  *)
(* in the code; they are kept here in hundredths (0.6 is 60).              *)
(***************************************************************************)
EXTENDS Integers, Sequences, FiniteSets, TLC

\* ------------------------------------------------------------------ bounds

\* longest face list the detection backend returns
MaxFaces == 2
\* initHuman calls made in one behaviour
MaxInitCalls == 3
\* longest side, in pixels, of the small source images
MaxSide == 4
\* longest candidate list given to the matching
MaxCandidates == 3
\* the configured maximum retry count of the ingestion pipeline
MaxRetries == 2
\* selfie registrations made
MaxSelfies == 3
\* rows of the creator_request table
MaxRequests == 2

\* ------------------------------------------------------- program constants

EMBEDDING_DIMENSIONS == 1024
\* the custom column type of the embedding columns: dataType() "vector(128)"
VECTOR_DIMENSIONS == 128
DEFAULT_MIN_CONFIDENCE == 50
DEFAULT_SELFIE_MIN_CONFIDENCE == 60
DEFAULT_MIN_REAL_SCORE == 50
DEFAULT_MIN_LIVE_SCORE == 50
DEFAULT_MATCH_THRESHOLD == 40

\* image-processor.ts
DISPLAY_HEIGHT == 1080
COMPRESSION_QUALITY == 80

\* JavaScript's undefined, for an optional number (face.real, options.minRealScore)
Undefined == -1

\* face.embedding === undefined
NoEmbedding == [dim |-> 0, tag |-> "undefined"]

\* the error messages
ERR_NOT_INITIALIZED == "[face-ai] Human AI not initialized. Call initHuman() first."
ERR_NO_FACE == "No face detected in the image"
ERR_MULTIPLE_FACES == "Multiple faces detected. Please upload a photo with only your face"
ERR_NOT_CLEAR == "Face not clearly visible. Please upload a clearer photo"
ERR_NO_FEATURES == "Could not extract face features. Please try another photo"
ERR_FAKE == "Photo appears to be fake or computer-generated"
ERR_RECORDING == "Photo appears to be a recording or printout"
\* exceptions raised by the backend, not by this module
ERR_DECODE == "decodeImage failed"
ERR_DETECT == "human.detect failed"
ERR_DIMENSIONS == "Could not read image dimensions"
\* exceptions raised by sharp: an unreadable input buffer, a resize parameter
\* that is not a positive integer, a failed encode
ERR_SHARP_INPUT == "Input buffer contains unsupported image format"
ERR_SHARP_PARAM == "Expected positive integer for width or height"
ERR_SHARP_ENCODE == "toBuffer failed"
\* requireMember and the partial unique index
ERR_MEMBER_REQUIRED == "Authorization error: Member access required"
ERR_PENDING_UNIQUE == "duplicate key value violates unique constraint pending_request_unique"
NoError == "undefined"

\* --------------------------------------------------------------- processes

\* concurrent callers of initHuman, and of the detection entry points
InitCallers == {"i1", "i2"}
Callers == {"c1", "c2"}

\* the uploaded photos, and the concurrent workers of the ingestion pipeline
PhotoIds == {"p1", "p2"}
Workers == {"w1", "w2"}
\* the users who register selfies, and the requests that register them
UserIds == {"u1", "u2"}
Registrants == {"r1", "r2"}
\* the admins who review creator requests
Reviewers == {"a1", "a2"}

\* ------------------------------------------------------------------ inputs

\* a face of the backend's Result: faceScore, embedding, real (anti-spoof) and
\* live (liveness); the backend's detector drops faces under its minConfidence
Embeddings ==
  { NoEmbedding,
    [dim |-> 128, tag |-> "a"],
    [dim |-> EMBEDDING_DIMENSIONS, tag |-> "a"],
    [dim |-> EMBEDDING_DIMENSIONS, tag |-> "b"] }

FaceScores == {s \in {60} : s >= DEFAULT_MIN_CONFIDENCE}

Faces ==
  [faceScore : FaceScores, embedding : Embeddings,
   real : {Undefined, 50}, live : {Undefined, 50}]

RECURSIVE SeqsUpTo(_, _)
SeqsUpTo(S, n) ==
  IF n = 0 THEN {<<>>}
  ELSE LET shorter == SeqsUpTo(S, n - 1)
       IN shorter \cup {Append(s, x) : s \in {t \in shorter : Len(t) = n - 1}, x \in S}

\* every Result.face list of at most MaxFaces faces
Results == SeqsUpTo(Faces, MaxFaces)

\* the options argument of validateSelfie; {} is all three Undefined
SelfieOptions ==
  [minRealScore : {Undefined, 0, 51},
   minLiveScore : {Undefined, 0, 51},
   minConfidence : {Undefined, 61}]

NoOptions ==
  [minRealScore |-> Undefined, minLiveScore |-> Undefined, minConfidence |-> Undefined]

\* an image buffer either decodes or makes tf.node.decodeImage throw
Images == {"decodable", "corrupt"}

\* the inputs of the concurrent specification: a few representative ones
GoodFace ==
  [faceScore |-> 60, embedding |-> [dim |-> EMBEDDING_DIMENSIONS, tag |-> "a"],
   real |-> 50, live |-> 50]
BadFace ==
  [faceScore |-> 60, embedding |-> [dim |-> 128, tag |-> "a"],
   real |-> Undefined, live |-> Undefined]
FewResults == {<<>>, <<GoodFace>>, <<BadFace>>, <<BadFace, GoodFace>>}
FewOptions == {NoOptions}

\* ---------------------------------------------------- the Human instance

\* the two switches of the instance configuration that the calls touch:
\* face.antispoof.enabled and face.liveness.enabled, both false at construction
humanConfig == [antispoof |-> FALSE, liveness |-> FALSE]

\* the second argument of human.detect: none from processPhotoForEmbeddings and
\* detectFaces, both switches on from validateSelfie
NoUserConfig == [k \in {} |-> TRUE]
selfieUserConfig == [antispoof |-> TRUE, liveness |-> TRUE]

\* Human.detect(input, userConfig) starts with
\*   this.config = mergeDeep(this.config, userConfig)
\* so an override given to one call stays in the instance configuration
mergeDeep(cfg, userConfig) ==
  [k \in DOMAIN cfg |-> IF k \in DOMAIN userConfig THEN userConfig[k] ELSE cfg[k]]

\* ----------------------------------------------------------- pure functions

\* options destructuring defaults: `const { x = d } = options`
WithDefault(v, d) == IF v = Undefined THEN d ELSE v

\* a missing value that counts as the best score, 1.0
Coalesce_failOpen(v, d) == IF v = Undefined THEN 100 ELSE v

\* `v ?? 0`
Coalesce(v, d) == IF v = Undefined THEN d ELSE v

\* the filter without the length test: Boolean(face.embedding)
HasEmbedding_anyLength(face) == face.embedding # NoEmbedding

\* Boolean(face.embedding && face.embedding.length === EMBEDDING_DIMENSIONS)
HasEmbedding(face) ==
  face.embedding # NoEmbedding /\ face.embedding.dim = EMBEDDING_DIMENSIONS

\* Array.prototype.filter with the predicate above
RECURSIVE FilterFaces(_)
FilterFaces(faces) ==
  IF faces = <<>> THEN <<>>
  ELSE IF HasEmbedding(Head(faces))
       THEN <<Head(faces)>> \o FilterFaces(Tail(faces))
       ELSE FilterFaces(Tail(faces))

\* .map((face, index) => ({ index, embedding, confidence, ... })); index is 0-based
MapFaces(faces) ==
  [i \in 1..Len(faces) |->
     [index |-> i - 1, embedding |-> faces[i].embedding,
      confidence |-> faces[i].faceScore]]

\* map before filter: a face's index is its position in the backend's list
PhotoProcessingResult_mapThenFilter(resultFace) ==
  LET kept == {i \in 1..Len(resultFace) : HasEmbedding(resultFace[i])}
      nth(k) == CHOOSE i \in kept : Cardinality({j \in kept : j < i}) = k - 1
      faces == [k \in 1..Cardinality(kept) |->
                  [index |-> nth(k) - 1, embedding |-> resultFace[nth(k)].embedding,
                   confidence |-> resultFace[nth(k)].faceScore]]
  IN [facesCount |-> Len(faces), faces |-> faces]

\* the PhotoProcessingResult built from the backend's result.face
PhotoProcessingResult(resultFace) ==
  LET faces == MapFaces(FilterFaces(resultFace))
  IN [facesCount |-> Len(faces), faces |-> faces]

\* a SelfieValidationResult; the fields a return statement leaves out are undefined
Rejected(err, realScore, liveScore) ==
  [isValid |-> FALSE, error |-> err, embedding |-> NoEmbedding,
   realScore |-> realScore, liveScore |-> liveScore]

Accepted(embedding, realScore, liveScore) ==
  [isValid |-> TRUE, error |-> NoError, embedding |-> embedding,
   realScore |-> realScore, liveScore |-> liveScore]

\* validateSelfie with the anti-spoof and liveness checks in the other order, and
\* the embedding check ahead of the confidence check
SelfieValidationResult_reordered(resultFace, options) ==
  LET minRealScore == WithDefault(options.minRealScore, DEFAULT_MIN_REAL_SCORE)
      minLiveScore == WithDefault(options.minLiveScore, DEFAULT_MIN_LIVE_SCORE)
      minConfidence == WithDefault(options.minConfidence, DEFAULT_SELFIE_MIN_CONFIDENCE)
  IN IF Len(resultFace) = 0 THEN Rejected(ERR_NO_FACE, Undefined, Undefined)
     ELSE IF Len(resultFace) > 1 THEN Rejected(ERR_MULTIPLE_FACES, Undefined, Undefined)
     ELSE LET face == resultFace[1]
              realScore == Coalesce(face.real, 0)
              liveScore == Coalesce(face.live, 0)
          IN IF ~HasEmbedding(face)
               THEN Rejected(ERR_NO_FEATURES, Undefined, Undefined)
             ELSE IF face.faceScore < minConfidence
               THEN Rejected(ERR_NOT_CLEAR, Undefined, Undefined)
             ELSE IF liveScore < minLiveScore
               THEN Rejected(ERR_RECORDING, Undefined, liveScore)
             ELSE IF realScore < minRealScore
               THEN Rejected(ERR_FAKE, realScore, Undefined)
             ELSE Accepted(face.embedding, realScore, liveScore)

\* validateSelfie with `<=` for `<`: a score equal to its threshold is rejected
SelfieValidationResult_strict(resultFace, options) ==
  LET minRealScore == WithDefault(options.minRealScore, DEFAULT_MIN_REAL_SCORE)
      minLiveScore == WithDefault(options.minLiveScore, DEFAULT_MIN_LIVE_SCORE)
      minConfidence == WithDefault(options.minConfidence, DEFAULT_SELFIE_MIN_CONFIDENCE)
  IN IF Len(resultFace) = 0 THEN Rejected(ERR_NO_FACE, Undefined, Undefined)
     ELSE IF Len(resultFace) > 1 THEN Rejected(ERR_MULTIPLE_FACES, Undefined, Undefined)
     ELSE LET face == resultFace[1]
              realScore == Coalesce(face.real, 0)
              liveScore == Coalesce(face.live, 0)
          IN IF face.faceScore <= minConfidence
               THEN Rejected(ERR_NOT_CLEAR, Undefined, Undefined)
             ELSE IF ~HasEmbedding(face)
               THEN Rejected(ERR_NO_FEATURES, Undefined, Undefined)
             ELSE IF realScore <= minRealScore
               THEN Rejected(ERR_FAKE, realScore, Undefined)
             ELSE IF liveScore <= minLiveScore
               THEN Rejected(ERR_RECORDING, Undefined, liveScore)
             ELSE Accepted(face.embedding, realScore, liveScore)

\* validateSelfie without the `result.face.length > 1` check: the first face of
\* a group photo is validated like a lone face
SelfieValidationResult_firstFaceOnly(resultFace, options) ==
  LET minRealScore == WithDefault(options.minRealScore, DEFAULT_MIN_REAL_SCORE)
      minLiveScore == WithDefault(options.minLiveScore, DEFAULT_MIN_LIVE_SCORE)
      minConfidence == WithDefault(options.minConfidence, DEFAULT_SELFIE_MIN_CONFIDENCE)
  IN IF Len(resultFace) = 0 THEN Rejected(ERR_NO_FACE, Undefined, Undefined)
     ELSE LET face == resultFace[1]
              realScore == Coalesce(face.real, 0)
              liveScore == Coalesce(face.live, 0)
          IN IF face.faceScore < minConfidence
               THEN Rejected(ERR_NOT_CLEAR, Undefined, Undefined)
             ELSE IF ~HasEmbedding(face)
               THEN Rejected(ERR_NO_FEATURES, Undefined, Undefined)
             ELSE IF realScore < minRealScore
               THEN Rejected(ERR_FAKE, realScore, Undefined)
             ELSE IF liveScore < minLiveScore
               THEN Rejected(ERR_RECORDING, Undefined, liveScore)
             ELSE Accepted(face.embedding, realScore, liveScore)

\* the body of validateSelfie after `await human.detect(...)`
SelfieValidationResult(resultFace, options) ==
  LET minRealScore == WithDefault(options.minRealScore, DEFAULT_MIN_REAL_SCORE)
      minLiveScore == WithDefault(options.minLiveScore, DEFAULT_MIN_LIVE_SCORE)
      minConfidence == WithDefault(options.minConfidence, DEFAULT_SELFIE_MIN_CONFIDENCE)
  IN IF Len(resultFace) = 0 THEN Rejected(ERR_NO_FACE, Undefined, Undefined)
     ELSE IF Len(resultFace) > 1 THEN Rejected(ERR_MULTIPLE_FACES, Undefined, Undefined)
     ELSE LET face == resultFace[1]
              realScore == Coalesce(face.real, 0)
              liveScore == Coalesce(face.live, 0)
          IN IF face.faceScore < minConfidence
               THEN Rejected(ERR_NOT_CLEAR, Undefined, Undefined)
             ELSE IF ~HasEmbedding(face)
               THEN Rejected(ERR_NO_FEATURES, Undefined, Undefined)
             ELSE IF realScore < minRealScore
               THEN Rejected(ERR_FAKE, realScore, Undefined)
             ELSE IF liveScore < minLiveScore
               THEN Rejected(ERR_RECORDING, Undefined, liveScore)
             ELSE Accepted(face.embedding, realScore, liveScore)

\* what a finished call left to its caller
NoOutcome == [kind |-> "none"]
Threw(err) == [kind |-> "threw", error |-> err]
Returned(v) == [kind |-> "returned", value |-> v]

\* a try block that reports "no face" as an error
PhotoReturn_throwOnEmpty(resultFace) ==
  IF PhotoProcessingResult(resultFace).facesCount = 0
    THEN Threw(ERR_NO_FACE)
    ELSE Returned(PhotoProcessingResult(resultFace))

\* the try block of processPhotoForEmbeddings once human.detect has resolved:
\* it returns the result, also when no face is left
PhotoReturn(resultFace) == Returned(PhotoProcessingResult(resultFace))

\* a catch clause that answers a failed detection with an empty result
PhotoThrow_swallowed(err) == Returned([facesCount |-> 0, faces |-> <<>>])

\* the try block has no catch clause: an exception of the backend goes to the caller
PhotoThrow(err) == Threw(err)

\* ------------------------------------------------------- image processor

\* width and height, in pixels, of the source images: every small size, and a
\* few photo sizes (landscape, portrait, a thin strip)
PhotoSizes ==
  ((1..MaxSide) \X (1..MaxSide))
    \cup {<<4000, 3000>>, <<3000, 4000>>, <<1920, 1080>>, <<10, 1000>>}

\* an input buffer, as sharp(inputBuffer).metadata() sees it: no image at all
\* ("not an image", an empty buffer), or an image whose metadata may lack a
\* width or a height, or give 0 for it
InputBuffers ==
  {[format |-> "image", width |-> d[1], height |-> d[2]] : d \in PhotoSizes}
    \cup {[format |-> "image", width |-> d[1], height |-> d[2]] :
            d \in {<<Undefined, Undefined>>, <<Undefined, 3>>, <<0, 3>>, <<3, 0>>}}
    \cup {[format |-> f, width |-> Undefined, height |-> Undefined] :
            f \in {"invalid", "empty"}}

\* options.targetHeight: missing, 0, every small height, and a few display heights
TargetHeights == {Undefined, 0} \cup (1..(MaxSide + 1)) \cup {75, 480, 4000}

\* the options argument of processImageForDisplay; {} is targetHeight and
\* quality Undefined and skipWatermark false
ProcessingOptions ==
  [targetHeight : TargetHeights, quality : {Undefined, 100}, skipWatermark : BOOLEAN]

Min(a, b) == IF a <= b THEN a ELSE b
Max(a, b) == IF a >= b THEN a ELSE b

\* the nearest integer to n / d (n >= 0, d > 0), a half rounded up
RoundHalfUp(n, d) == (2 * n + d) \div (2 * d)

\* n / d lies exactly between two integers
IsHalf(n, d) == (2 * n) % d = 0 /\ ((2 * n) \div d) % 2 = 1

\* Math.round of a quotient computed in doubles: RoundHalfUp, but where the
\* exact value is a half the double can lie just under it and round down
\* (47 * (3 / 94) is 1.4999999999999998), so both neighbours are possible
MathRound(n, d) ==
  IF IsHalf(n, d) THEN {RoundHalfUp(n, d) - 1, RoundHalfUp(n, d)} ELSE {RoundHalfUp(n, d)}

\* the dimension check that tests the height only
HasDimensions_heightOnly(originalWidth, originalHeight) == originalHeight # 0

\* the negation of `!originalWidth || !originalHeight`
HasDimensions(originalWidth, originalHeight) == originalWidth # 0 /\ originalHeight # 0

\* the new height as the target height, whatever the original height
NewHeight_target(targetHeight, originalHeight) == targetHeight

\* the new height with Math.max for Math.min
NewHeight_max(targetHeight, originalHeight) == Max(targetHeight, originalHeight)

\* Math.min(targetHeight, originalHeight)
NewHeight(targetHeight, originalHeight) == Min(targetHeight, originalHeight)

\* the new width with the aspect ratio upside down (height / width)
NewWidth_inverted(newHeight, originalWidth, originalHeight) ==
  MathRound(newHeight * originalHeight, originalWidth)

\* Math.round(newHeight * aspectRatio), aspectRatio = originalWidth / originalHeight
NewWidth(newHeight, originalWidth, originalHeight) ==
  MathRound(newHeight * originalWidth, originalHeight)

\* the argument of sharp's resize()
NoResize == [width |-> 0, height |-> 0, fit |-> "none", withoutEnlargement |-> FALSE]
ResizeOptions(newWidth, newHeight) ==
  [width |-> newWidth, height |-> newHeight, fit |-> "inside", withoutEnlargement |-> TRUE]

\* the size of the image that sharp's resize gives for a W x H input with
\* fit "inside": both axes shrink by the larger of W / width and H / height, so
\* the image fits the box and keeps its proportions, each side rounded and at
\* least 1; withoutEnlargement leaves the input as it is instead of enlarging it
SharpResize(W, H, o) ==
  LET byWidth == W * o.height >= H * o.width
  IN IF o.withoutEnlargement /\ o.width >= W /\ o.height >= H
       THEN {[width |-> W, height |-> H]}
     ELSE IF byWidth
       THEN {[width |-> o.width, height |-> Max(1, h)] : h \in MathRound(H * o.width, W)}
     ELSE {[width |-> Max(1, w), height |-> o.height] : w \in MathRound(W * o.height, H)}

NoBuffer == [width |-> 0, height |-> 0]

\* the ProcessedImage that processImageForDisplay returns; the buffer is kept as
\* the size its metadata reports
ProcessedImage(finalMetadata, newWidth, newHeight, originalWidth, originalHeight) ==
  [width |-> Coalesce(finalMetadata.width, newWidth),
   height |-> Coalesce(finalMetadata.height, newHeight),
   originalWidth |-> originalWidth,
   originalHeight |-> originalHeight]

\* ----------------------------------------------------------- face matching

\* face descriptors (embeddings as numbers), shortened to two components, each
\* in tenths; descriptors 10.9, 11.2 and 11.4 away from the first score 0.42,
\* 0.40 and 0.38 against it
Descriptors == {<<0, 0>>, <<109, 0>>, <<0, 109>>, <<112, 0>>, <<114, 0>>, <<60, 80>>}
Queries == {<<0, 0>>, <<109, 0>>, <<60, 80>>}

\* the candidate pools: every list of at most MaxCandidates descriptors
CandidateLists == SeqsUpTo(Descriptors, MaxCandidates)

\* the threshold argument of the matching: missing, 0.42, 1.0
Thresholds == {Undefined, 42, 100}

\* the largest r with r * r <= n, found by bisection between lo and hi
RECURSIVE IsqrtIn(_, _, _)
IsqrtIn(n, lo, hi) ==
  IF hi - lo <= 1 THEN lo
  ELSE LET mid == (lo + hi) \div 2
       IN IF mid * mid <= n THEN IsqrtIn(n, mid, hi) ELSE IsqrtIn(n, lo, mid)
Isqrt(n) == IsqrtIn(n, 0, Min(n, 46339) + 1)

RECURSIVE SumOfSquares(_, _)
SumOfSquares(descriptor1, descriptor2) ==
  IF descriptor1 = <<>> THEN 0
  ELSE (Head(descriptor1) - Head(descriptor2)) * (Head(descriptor1) - Head(descriptor2))
         + SumOfSquares(Tail(descriptor1), Tail(descriptor2))

\* human.match.distance with the library's defaults (order 2, multiplier 25):
\* 25 times the sum of the squared differences; in hundredths here
distance(descriptor1, descriptor2) == 25 * SumOfSquares(descriptor1, descriptor2)

\* the library's normalizeDistance with its defaults (min 0.2, max 0.8): 1 for
\* a distance of 0, else (1 - sqrt(dist) / 100 - 0.2) / 0.6 clamped to [0, 1];
\* the result in hundredths, cut to a whole number
normalizeDistance(dist) ==
  IF dist = 0 THEN 100
  ELSE Max(Min((800 - Isqrt(dist)) \div 6, 100), 0)

\* compareFaces returning the distance for the similarity
compareFaces_distance(embedding1, embedding2) == distance(embedding1, embedding2)

\* compareFaces(embedding1, embedding2): human.match.similarity
compareFaces(embedding1, embedding2) == normalizeDistance(distance(embedding1, embedding2))

\* the match test with `>` for `>=`
IsMatch_above(similarity, threshold) == similarity > threshold

\* `similarity >= threshold`
IsMatch(similarity, threshold) == similarity >= threshold

\* one entry per candidate, in input order: its index and its similarity to the
\* query
ScoreCandidates(query, candidates) ==
  [i \in 1..Len(candidates) |->
     [index |-> i - 1, similarity |-> compareFaces(query, candidates[i])]]

\* the place of m in a list sorted best first: behind every entry that scores
\* at least as much
RECURSIVE InsertMatch(_, _)
InsertMatch(sorted, m) ==
  IF sorted = <<>> THEN <<m>>
  ELSE IF Head(sorted).similarity >= m.similarity
    THEN <<Head(sorted)>> \o InsertMatch(Tail(sorted), m)
  ELSE <<m>> \o sorted

\* the place of m ahead of the entries with the same score
RECURSIVE InsertMatch_ahead(_, _)
InsertMatch_ahead(sorted, m) ==
  IF sorted = <<>> THEN <<m>>
  ELSE IF Head(sorted).similarity > m.similarity
    THEN <<Head(sorted)>> \o InsertMatch_ahead(Tail(sorted), m)
  ELSE <<m>> \o sorted

\* a sort that is not stable: entries with equal scores come out reversed
RECURSIVE SortBySimilarity_unstable(_)
SortBySimilarity_unstable(matches) ==
  IF matches = <<>> THEN <<>>
  ELSE InsertMatch_ahead(SortBySimilarity_unstable(SubSeq(matches, 1, Len(matches) - 1)),
                         matches[Len(matches)])

\* matches.sort((a, b) => b.similarity - a.similarity): Array.prototype.sort is
\* stable, entries with equal scores keep their order
RECURSIVE SortBySimilarity(_)
SortBySimilarity(matches) ==
  IF matches = <<>> THEN <<>>
  ELSE InsertMatch(SortBySimilarity(SubSeq(matches, 1, Len(matches) - 1)),
                   matches[Len(matches)])

RECURSIVE FilterMatches(_, _)
FilterMatches(matches, threshold) ==
  IF matches = <<>> THEN <<>>
  ELSE IF IsMatch(Head(matches).similarity, threshold)
    THEN <<Head(matches)>> \o FilterMatches(Tail(matches), threshold)
  ELSE FilterMatches(Tail(matches), threshold)

\* the Match Engine: score every candidate, keep those that reach the
\* threshold (0.4 unless given), sort best first
match(queryEmbedding, candidates, threshold) ==
  SortBySimilarity(
    FilterMatches(ScoreCandidates(queryEmbedding, candidates),
                  WithDefault(threshold, DEFAULT_MATCH_THRESHOLD)))

\* ---------------------------------------------------------------- ingestion

\* a row of the photos table as the upload leaves it: status 'pending',
\* retry_count 0, faces_count 0, no processing_error, no storage_path_display
NewPhoto ==
  [status |-> "pending", retryCount |-> 0, processingError |-> NoError,
   facesCount |-> 0, storagePathDisplay |-> "null"]

\* what the detection backend finds in an uploaded photo
IngestResults == {<<>>, <<GoodFace>>, <<BadFace, GoodFace>>, <<GoodFace, GoodFace>>}

NoResult == [facesCount |-> 0, faces |-> <<>>]

\* `db.update(photos).set({ facesCount: result.facesCount })`
PhotoRowUpdate(result) == result.facesCount

\* a loop over result.faces that starts at the second face
NewPhotoEmbeddings_skipFirst(photoId, result) ==
  [i \in 1..(Len(result.faces) - 1) |->
     [photoId |-> photoId, embedding |-> result.faces[i + 1].embedding]]

\* the rows `for (const face of result.faces) db.insert(photoEmbeddings).values(
\* { photoId, embedding: face.embedding })` inserts, in order
NewPhotoEmbeddings(photoId, result) ==
  [i \in 1..Len(result.faces) |->
     [photoId |-> photoId, embedding |-> result.faces[i].embedding]]

\* a claim that looks at no status
Claimable_always(photo) == TRUE

\* a claim that retries every failed photo
Claimable_unbounded(photo) == photo.status \in {"pending", "failed"}

\* the condition of the claim's conditional update: the photo is pending, or
\* failed with retries left
Claimable(photo) ==
  \/ photo.status = "pending"
  \/ photo.status = "failed" /\ photo.retryCount < MaxRetries

\* ------------------------------------------------------- selfie registration

\* what the backend finds in a submitted selfie
SelfieResults == {<<>>, <<GoodFace>>, <<BadFace>>, <<GoodFace, GoodFace>>}

\* is_active boolean DEFAULT true NOT NULL
IS_ACTIVE_DEFAULT == TRUE

\* the row `db.insert(userEmbeddings).values({ userId: user.id, embedding:
\* result.embedding })` inserts: is_active is left to the column default
NewUserEmbedding(userId, embedding) ==
  [userId |-> userId, embedding |-> embedding, isActive |-> IS_ACTIVE_DEFAULT]

\* a vector(n) column takes vectors of exactly n dimensions
FitsVectorColumn(embedding) == embedding.dim = VECTOR_DIMENSIONS

\* the rows of user u that matching reads
ActiveUserEmbeddings(rows, u) ==
  {i \in DOMAIN rows : rows[i].userId = u /\ rows[i].isActive}

\* ---------------------------------------------------------- creator requests

\* the ids a request can have: row i of the table has id i; an id beyond the
\* table is the id of no row
RequestIds == 1..MaxRequests

\* the row `db.insert(creatorRequest).values({ userId, portfolioLink, motivation })`
\* inserts: status is left to its default 'pending', reviewed_by to null
NewCreatorRequest(userId) ==
  [userId |-> userId, status |-> "pending", reviewedBy |-> "null"]

NoRequest == [userId |-> "null", status |-> "none", reviewedBy |-> "null"]

\* the row with this id, if there is one
RequestById(rows, requestId) ==
  IF requestId \in DOMAIN rows THEN rows[requestId] ELSE NoRequest

\* the pending requests of user u
PendingRequests(rows, u) ==
  {i \in DOMAIN rows : rows[i].userId = u /\ rows[i].status = "pending"}

\* a table without the index: no insert is refused
ViolatesPendingRequestUnique_noIndex(rows, row) == FALSE

\* CREATE UNIQUE INDEX "pending_request_unique" ON "creator_request" ("user_id")
\* WHERE status = 'pending': the row cannot be added next to the rows there are
ViolatesPendingRequestUnique(rows, row) ==
  row.status = "pending" /\ PendingRequests(rows, row.userId) # {}

\* `.update(creatorRequest).set({ status, reviewedBy }).where(eq(
\* creatorRequest.id, requestId))`: the row with this id, whatever its status
SetRequestStatus(rows, requestId, status, reviewedBy) ==
  [i \in DOMAIN rows |->
     IF i = requestId
       THEN [rows[i] EXCEPT !.status = status, !.reviewedBy = reviewedBy]
       ELSE rows[i]]

\* --------------------------------------------------------------------- state

VARIABLES
  isInitialized,  \* the module's `let isInitialized`
  config,         \* human.config, the instance configuration
  initPc,         \* where each initHuman call stands: idle, loading, warming
  initOutcome,    \* how each caller's last initHuman call ended
  initCalls,      \* initHuman calls made so far
  loadCount,      \* human.load() invocations so far
  warmupCount,    \* human.warmup() invocations so far
  initFailed,     \* some human.load() or human.warmup() has rejected
  pc,             \* where each detection call stands: idle or detecting
  op,             \* the entry point of each caller's current or last call
  options,        \* its options argument (validateSelfie)
  tensor,         \* the tensor it decoded: none, live or disposed
  disposals,      \* how often disposeTensor ran on that tensor
  ranWith,        \* the configuration its human.detect ran with, if it ran
  backend,        \* what the backend did for it: notCalled, decodeThrew, detecting,
                  \* resolved or rejected
  detected,       \* the face list its human.detect resolved with
  outcome,        \* what the call left to its caller
  numTensors,     \* human.tf.memory().numTensors held for decoded images
  imgPc,          \* where the processImageForDisplay call stands: idle, metadata,
                  \* encoding or finalMetadata
  imgInput,       \* its inputBuffer
  imgOptions,     \* its options argument
  imgResize,      \* the argument it gave to sharp's resize()
  imgSteps,       \* the pipeline steps it has asked sharp for
  imgBuffer,      \* the size of the JPEG that toBuffer() resolved with
  imgOutcome,     \* what the call left to its caller
  matchQuery,     \* the query embedding of the matching
  matchCandidates,\* the candidate embeddings, in input order
  matchThreshold, \* the threshold argument
  matchDone,      \* the matching operations applied to these inputs so far
  selfSimilarity, \* compareFaces(query, query), once computed
  matchRanked,    \* every candidate with its similarity, best first
  matchFound,     \* the best candidate reaches 0.4
  matchResult,    \* the ranked list of the candidates that reach the threshold
  photos,         \* the photos table: the row of each photo
  photoEmbeddings,\* the photo_embeddings table: the rows of each photo, in insert order
  wPc,            \* where each worker stands: idle, stage (transform and extraction
                  \* running) or writing
  wPhoto,         \* the photo of its current or last claim
  wClaim,         \* how its last claim ended: none, won or lost
  wResult,        \* the PhotoProcessingResult of its job
  wWrites,        \* the writes to the photo row its job has made
  wInserted,      \* the embedding rows its job has inserted
  userEmbeddings, \* the user_embeddings table: its rows, in insert order
  regPc,          \* where each selfie registration stands: idle, validating, inserting
  regUser,        \* the user of its current or last registration
  regResult,      \* the SelfieValidationResult it got
  regOutcome,     \* how its last registration ended: none, rejected, stored or
                  \* insertFailed
  users,          \* the user table: the role of each user
  creatorRequest, \* the creator_request table: its rows, in insert order
  submitOutcome,  \* what each user's last submitRequest call left to its caller
  crPc,           \* where each reviewer's call stands: idle, updatingUser,
                  \* updatingRequest or rejecting
  crOp,           \* the server function of its current or last call
  crData,         \* the data of that call: userId and requestId
  crBefore        \* the role userId had when the approveRequest call began

initVars == <<isInitialized, initPc, initOutcome, initCalls, loadCount, warmupCount, initFailed>>
callVars == <<pc, op, options, tensor, disposals, ranWith, backend, detected, outcome, numTensors>>
imgVars == <<imgPc, imgInput, imgOptions, imgResize, imgSteps, imgBuffer, imgOutcome>>
\* the state of the face library, and the state outside it
faceVars == <<isInitialized, config, initPc, initOutcome, initCalls, loadCount, warmupCount,
              initFailed, pc, op, options, tensor, disposals, ranWith, backend, detected,
              outcome, numTensors>>
matchVars == <<matchQuery, matchCandidates, matchThreshold, matchDone, selfSimilarity,
               matchRanked, matchFound, matchResult>>
ingestVars == <<photos, photoEmbeddings, wPc, wPhoto, wClaim, wResult, wWrites, wInserted>>
selfieVars == <<userEmbeddings, regPc, regUser, regResult, regOutcome>>
requestVars == <<users, creatorRequest, submitOutcome, crPc, crOp, crData, crBefore>>
otherThanFace == <<imgVars, matchVars, ingestVars, selfieVars, requestVars>>
otherThanImage == <<matchVars, ingestVars, selfieVars, requestVars>>
otherThanMatch == <<faceVars, imgVars, ingestVars, selfieVars, requestVars>>
otherThanIngest == <<faceVars, imgVars, matchVars, selfieVars, requestVars>>
otherThanSelfie == <<faceVars, imgVars, matchVars, ingestVars, requestVars>>
otherThanRequests == <<faceVars, imgVars, matchVars, ingestVars, selfieVars>>
vars == <<isInitialized, config, initPc, initOutcome, initCalls, loadCount, warmupCount,
          initFailed, pc, op, options, tensor, disposals, ranWith, backend, detected,
          outcome, numTensors, imgVars, matchVars, ingestVars, selfieVars, requestVars>>

NotRun == [ran |-> FALSE, antispoof |-> FALSE, liveness |-> FALSE]
RanWith(cfg) == [ran |-> TRUE, antispoof |-> cfg.antispoof, liveness |-> cfg.liveness]

\* no processImageForDisplay call made yet
NoProcessingOptions == [targetHeight |-> Undefined, quality |-> Undefined, skipWatermark |-> FALSE]
NoInput == [format |-> "none", width |-> Undefined, height |-> Undefined]
ImageIdle ==
  /\ imgPc = "idle"
  /\ imgInput = NoInput
  /\ imgOptions = NoProcessingOptions
  /\ imgResize = NoResize
  /\ imgSteps = {}
  /\ imgBuffer = NoBuffer
  /\ imgOutcome = NoOutcome

\* nothing matched yet
MatchPending ==
  /\ matchDone = {}
  /\ selfSimilarity = Undefined
  /\ matchRanked = <<>>
  /\ matchFound = FALSE
  /\ matchResult = <<>>
MatchIdle ==
  /\ matchQuery = <<0, 0>>
  /\ matchCandidates = <<>>
  /\ matchThreshold = Undefined
  /\ MatchPending

\* every photo uploaded and pending, every worker idle
PhotosPending ==
  /\ photos = [p \in PhotoIds |-> NewPhoto]
  /\ photoEmbeddings = [p \in PhotoIds |-> <<>>]
  /\ wPc = [w \in Workers |-> "idle"]
  /\ wPhoto = [w \in Workers |-> "p1"]
  /\ wClaim = [w \in Workers |-> "none"]
  /\ wResult = [w \in Workers |-> NoResult]
  /\ wWrites = [w \in Workers |-> {}]
  /\ wInserted = [w \in Workers |-> 0]

\* no selfie registered yet
NoSelfies ==
  /\ userEmbeddings = <<>>
  /\ regPc = [r \in Registrants |-> "idle"]
  /\ regUser = [r \in Registrants |-> "u1"]
  /\ regResult = [r \in Registrants |-> Rejected(NoError, Undefined, Undefined)]
  /\ regOutcome = [r \in Registrants |-> "none"]

\* every user a member, no creator request submitted yet
NoData == [userId |-> "null", requestId |-> 0]
NoRequests ==
  /\ users = [u \in UserIds |-> "member"]
  /\ creatorRequest = <<>>
  /\ submitOutcome = [u \in UserIds |-> NoOutcome]
  /\ crPc = [a \in Reviewers |-> "idle"]
  /\ crOp = [a \in Reviewers |-> "none"]
  /\ crData = [a \in Reviewers |-> NoData]
  /\ crBefore = [a \in Reviewers |-> "null"]

Init ==
  /\ isInitialized = FALSE
  /\ config = humanConfig
  /\ initPc = [p \in InitCallers |-> "idle"]
  /\ initOutcome = [p \in InitCallers |-> "none"]
  /\ initCalls = 0
  /\ loadCount = 0
  /\ warmupCount = 0
  /\ initFailed = FALSE
  /\ pc = [c \in Callers |-> "idle"]
  /\ op = [c \in Callers |-> "none"]
  /\ options = [c \in Callers |-> NoOptions]
  /\ tensor = [c \in Callers |-> "none"]
  /\ disposals = [c \in Callers |-> 0]
  /\ ranWith = [c \in Callers |-> NotRun]
  /\ backend = [c \in Callers |-> "notCalled"]
  /\ detected = [c \in Callers |-> <<>>]
  /\ outcome = [c \in Callers |-> NoOutcome]
  /\ numTensors = 0
  /\ ImageIdle
  /\ MatchIdle
  /\ PhotosPending
  /\ NoSelfies
  /\ NoRequests

\* ------------------------------------------------------------------ initHuman

\* initHuman without `if (isInitialized) return`
initHuman_always(p) ==
  /\ initPc[p] = "idle"
  /\ initCalls < MaxInitCalls
  /\ initCalls' = initCalls + 1
  /\ loadCount' = loadCount + 1
  /\ initPc' = [initPc EXCEPT ![p] = "loading"]
  /\ initOutcome' = [initOutcome EXCEPT ![p] = "none"]
  /\ UNCHANGED <<isInitialized, warmupCount, initFailed, config>>
  /\ UNCHANGED callVars

\* initHuman() up to `await human.load()`
initHuman(p) ==
  /\ initPc[p] = "idle"
  /\ initCalls < MaxInitCalls
  /\ initCalls' = initCalls + 1
  /\ IF isInitialized
       THEN /\ initOutcome' = [initOutcome EXCEPT ![p] = "already"]
            /\ UNCHANGED <<initPc, loadCount>>
       ELSE /\ loadCount' = loadCount + 1
            /\ initPc' = [initPc EXCEPT ![p] = "loading"]
            /\ initOutcome' = [initOutcome EXCEPT ![p] = "none"]
  /\ UNCHANGED <<isInitialized, warmupCount, initFailed, config>>
  /\ UNCHANGED callVars

\* `isInitialized = true` placed between the two awaits
initHuman_loaded_flagEarly(p) ==
  /\ initPc[p] = "loading"
  /\ warmupCount' = warmupCount + 1
  /\ isInitialized' = TRUE
  /\ initPc' = [initPc EXCEPT ![p] = "warming"]
  /\ UNCHANGED <<initOutcome, initCalls, loadCount, initFailed, config>>
  /\ UNCHANGED callVars

\* human.load() resolved: on to `await human.warmup()`
initHuman_loaded(p) ==
  /\ initPc[p] = "loading"
  /\ warmupCount' = warmupCount + 1
  /\ initPc' = [initPc EXCEPT ![p] = "warming"]
  /\ UNCHANGED <<isInitialized, initOutcome, initCalls, loadCount, initFailed, config>>
  /\ UNCHANGED callVars

\* human.load() rejected (model files cannot be loaded): initHuman throws
initHuman_loadFailed(p) ==
  /\ initPc[p] = "loading"
  /\ initPc' = [initPc EXCEPT ![p] = "idle"]
  /\ initOutcome' = [initOutcome EXCEPT ![p] = "threw"]
  /\ initFailed' = TRUE
  /\ UNCHANGED <<isInitialized, initCalls, loadCount, warmupCount, config>>
  /\ UNCHANGED callVars

\* human.warmup() resolved: `isInitialized = true`
initHuman_warmedUp(p) ==
  /\ initPc[p] = "warming"
  /\ isInitialized' = TRUE
  /\ initPc' = [initPc EXCEPT ![p] = "idle"]
  /\ initOutcome' = [initOutcome EXCEPT ![p] = "initialized"]
  /\ UNCHANGED <<initCalls, loadCount, warmupCount, initFailed, config>>
  /\ UNCHANGED callVars

\* human.warmup() rejected: initHuman throws
initHuman_warmupFailed(p) ==
  /\ initPc[p] = "warming"
  /\ initPc' = [initPc EXCEPT ![p] = "idle"]
  /\ initOutcome' = [initOutcome EXCEPT ![p] = "threw"]
  /\ initFailed' = TRUE
  /\ UNCHANGED <<isInitialized, initCalls, loadCount, warmupCount, config>>
  /\ UNCHANGED callVars

\* isHumanInitialized()
isHumanInitialized == isInitialized

\* ------------------------------------------------- the detection entry points

\* a call that throws before it reaches human.detect
ThrowAtEntry(c, o, opts, err) ==
  /\ op' = [op EXCEPT ![c] = o]
  /\ options' = [options EXCEPT ![c] = opts]
  /\ outcome' = [outcome EXCEPT ![c] = Threw(err)]
  /\ tensor' = [tensor EXCEPT ![c] = "none"]
  /\ disposals' = [disposals EXCEPT ![c] = 0]
  /\ ranWith' = [ranWith EXCEPT ![c] = NotRun]
  /\ backend' = [backend EXCEPT ![c] = IF err = ERR_DECODE THEN "decodeThrew" ELSE "notCalled"]
  /\ detected' = [detected EXCEPT ![c] = <<>>]
  /\ UNCHANGED <<pc, numTensors, config>>

\* human.detect(tensor, userConfig) invoked: the call awaits its result
AwaitDetect(c, o, opts, userConfig, decoded) ==
  /\ op' = [op EXCEPT ![c] = o]
  /\ options' = [options EXCEPT ![c] = opts]
  /\ outcome' = [outcome EXCEPT ![c] = NoOutcome]
  /\ tensor' = [tensor EXCEPT ![c] = IF decoded THEN "live" ELSE "none"]
  /\ numTensors' = IF decoded THEN numTensors + 1 ELSE numTensors
  /\ disposals' = [disposals EXCEPT ![c] = 0]
  /\ config' = mergeDeep(config, userConfig)
  /\ ranWith' = [ranWith EXCEPT ![c] = RanWith(config')]
  /\ backend' = [backend EXCEPT ![c] = "detecting"]
  /\ detected' = [detected EXCEPT ![c] = <<>>]
  /\ pc' = [pc EXCEPT ![c] = "detecting"]

\* the entry without the isInitialized check
EntryStep_unchecked(initialized, imageBuffer) ==
  IF imageBuffer = "corrupt" THEN "decodeFailed" ELSE "decoded"

\* the steps of processPhotoForEmbeddings and validateSelfie before the try block:
\* the isInitialized check, then decodeImage(imageBuffer)
EntryStep(initialized, imageBuffer) ==
  IF ~initialized THEN "notInitialized"
  ELSE IF imageBuffer = "corrupt" THEN "decodeFailed"
  ELSE "decoded"

\* the finally block taken on the normal return only
disposeTensor_onReturnOnly(c, exit) ==
  IF exit = "return"
    THEN /\ tensor' = [tensor EXCEPT ![c] = "disposed"]
         /\ disposals' = [disposals EXCEPT ![c] = @ + 1]
         /\ numTensors' = numTensors - 1
    ELSE UNCHANGED <<tensor, disposals, numTensors>>

\* disposeTensor(tensor) in the finally block, on every way out of the try block
disposeTensor(c, exit) ==
  /\ tensor' = [tensor EXCEPT ![c] = "disposed"]
  /\ disposals' = [disposals EXCEPT ![c] = @ + 1]
  /\ numTensors' = numTensors - 1

\* detectFaces(tensor) up to human.detect; the tensor is the caller's
detectFaces(c) ==
  /\ pc[c] = "idle"
  /\ IF ~isInitialized
       THEN ThrowAtEntry(c, "detectFaces", NoOptions, ERR_NOT_INITIALIZED)
       ELSE AwaitDetect(c, "detectFaces", NoOptions, NoUserConfig, FALSE)
  /\ UNCHANGED initVars

\* human.detect resolved with one of `results`: detectFaces returns it as it is
detectFaces_detected(c, results) ==
  /\ pc[c] = "detecting" /\ op[c] = "detectFaces"
  /\ \E resultFace \in results :
     /\ backend' = [backend EXCEPT ![c] = "resolved"]
     /\ detected' = [detected EXCEPT ![c] = resultFace]
     /\ outcome' = [outcome EXCEPT ![c] = Returned(resultFace)]
     /\ pc' = [pc EXCEPT ![c] = "idle"]
     /\ UNCHANGED <<op, options, tensor, disposals, ranWith, numTensors, config>>
     /\ UNCHANGED initVars

\* human.detect rejected: detectFaces throws
detectFaces_failed(c) ==
  /\ pc[c] = "detecting" /\ op[c] = "detectFaces"
  /\ backend' = [backend EXCEPT ![c] = "rejected"]
  /\ outcome' = [outcome EXCEPT ![c] = Threw(ERR_DETECT)]
  /\ pc' = [pc EXCEPT ![c] = "idle"]
  /\ UNCHANGED <<op, options, tensor, disposals, ranWith, detected, numTensors, config>>
  /\ UNCHANGED initVars

\* processPhotoForEmbeddings(imageBuffer) up to `await human.detect(tensor)`
processPhotoForEmbeddings(c, imageBuffer) ==
  /\ pc[c] = "idle"
  /\ LET step == EntryStep(isInitialized, imageBuffer)
     IN IF step = "notInitialized"
          THEN ThrowAtEntry(c, "processPhotoForEmbeddings", NoOptions, ERR_NOT_INITIALIZED)
        ELSE IF step = "decodeFailed"
          THEN ThrowAtEntry(c, "processPhotoForEmbeddings", NoOptions, ERR_DECODE)
        ELSE AwaitDetect(c, "processPhotoForEmbeddings", NoOptions, NoUserConfig, TRUE)
  /\ UNCHANGED initVars

\* human.detect resolved: filter, map, return; finally disposeTensor
processPhotoForEmbeddings_detected(c, results) ==
  /\ pc[c] = "detecting" /\ op[c] = "processPhotoForEmbeddings"
  /\ \E resultFace \in results :
     /\ backend' = [backend EXCEPT ![c] = "resolved"]
     /\ detected' = [detected EXCEPT ![c] = resultFace]
     /\ outcome' = [outcome EXCEPT ![c] = PhotoReturn(resultFace)]
     /\ disposeTensor(c, "return")
     /\ pc' = [pc EXCEPT ![c] = "idle"]
     /\ UNCHANGED <<op, options, ranWith, config>>
     /\ UNCHANGED initVars

\* human.detect rejected: the exception leaves through the finally block
processPhotoForEmbeddings_failed(c) ==
  /\ pc[c] = "detecting" /\ op[c] = "processPhotoForEmbeddings"
  /\ backend' = [backend EXCEPT ![c] = "rejected"]
  /\ outcome' = [outcome EXCEPT ![c] = PhotoThrow(ERR_DETECT)]
  /\ disposeTensor(c, "throw")
  /\ pc' = [pc EXCEPT ![c] = "idle"]
  /\ UNCHANGED <<op, options, ranWith, detected, config>>
  /\ UNCHANGED initVars

\* validateSelfie(imageBuffer, options) up to `await human.detect(tensor, {...})`
validateSelfie(c, imageBuffer, opts) ==
  /\ pc[c] = "idle"
  /\ LET step == EntryStep(isInitialized, imageBuffer)
     IN IF step = "notInitialized"
          THEN ThrowAtEntry(c, "validateSelfie", opts, ERR_NOT_INITIALIZED)
        ELSE IF step = "decodeFailed"
          THEN ThrowAtEntry(c, "validateSelfie", opts, ERR_DECODE)
        ELSE AwaitDetect(c, "validateSelfie", opts, selfieUserConfig, TRUE)
  /\ UNCHANGED initVars

\* human.detect resolved: the ordered checks, return; finally disposeTensor
validateSelfie_detected(c, results) ==
  /\ pc[c] = "detecting" /\ op[c] = "validateSelfie"
  /\ \E resultFace \in results :
     /\ backend' = [backend EXCEPT ![c] = "resolved"]
     /\ detected' = [detected EXCEPT ![c] = resultFace]
     /\ outcome' = [outcome EXCEPT ![c] = Returned(SelfieValidationResult(resultFace, options[c]))]
     /\ disposeTensor(c, "return")
     /\ pc' = [pc EXCEPT ![c] = "idle"]
     /\ UNCHANGED <<op, options, ranWith, config>>
     /\ UNCHANGED initVars

\* human.detect rejected: the exception leaves through the finally block
validateSelfie_failed(c) ==
  /\ pc[c] = "detecting" /\ op[c] = "validateSelfie"
  /\ backend' = [backend EXCEPT ![c] = "rejected"]
  /\ outcome' = [outcome EXCEPT ![c] = Threw(ERR_DETECT)]
  /\ disposeTensor(c, "throw")
  /\ pc' = [pc EXCEPT ![c] = "idle"]
  /\ UNCHANGED <<op, options, ranWith, detected, config>>
  /\ UNCHANGED initVars

\* ----------------------------------------------------- processImageForDisplay

\* the call is over with an exception
ImageThrow(err) ==
  /\ imgOutcome' = Threw(err)
  /\ imgPc' = "idle"

\* processImageForDisplay(inputBuffer, options) up to
\* `await sharp(inputBuffer).metadata()`
processImageForDisplay(inputBuffer, opts) ==
  /\ imgPc = "idle"
  /\ imgInput' = inputBuffer
  /\ imgOptions' = opts
  /\ imgResize' = NoResize
  /\ imgSteps' = {}
  /\ imgBuffer' = NoBuffer
  /\ imgOutcome' = NoOutcome
  /\ imgPc' = "metadata"
  /\ UNCHANGED faceVars

\* metadata() rejected, the buffer is no image: the exception goes to the caller
processImageForDisplay_unreadable ==
  /\ imgPc = "metadata"
  /\ imgInput.format # "image"
  /\ ImageThrow(ERR_SHARP_INPUT)
  /\ UNCHANGED <<imgInput, imgOptions, imgResize, imgSteps, imgBuffer>>
  /\ UNCHANGED faceVars

\* metadata() resolved: the dimension check, the new dimensions, then the
\* pipeline resize -> composite (the watermark) -> jpeg, up to `await toBuffer()`;
\* resize() throws at once for a width or height that is no positive integer
processImageForDisplay_metadata ==
  /\ imgPc = "metadata"
  /\ imgInput.format = "image"
  /\ LET targetHeight == WithDefault(imgOptions.targetHeight, DISPLAY_HEIGHT)
         originalWidth == Coalesce(imgInput.width, 0)
         originalHeight == Coalesce(imgInput.height, 0)
     IN IF ~HasDimensions(originalWidth, originalHeight)
          THEN /\ ImageThrow(ERR_DIMENSIONS)
               /\ UNCHANGED <<imgResize, imgSteps>>
        ELSE LET newHeight == NewHeight(targetHeight, originalHeight)
             IN \E newWidth \in NewWidth(newHeight, originalWidth, originalHeight) :
                  /\ imgResize' = ResizeOptions(newWidth, newHeight)
                  /\ IF newWidth < 1 \/ newHeight < 1
                       THEN /\ ImageThrow(ERR_SHARP_PARAM)
                            /\ UNCHANGED imgSteps
                       ELSE /\ imgSteps' =
                                 {"resize", "jpeg"}
                                   \cup (IF imgOptions.skipWatermark THEN {} ELSE {"watermark"})
                            /\ imgPc' = "encoding"
                            /\ UNCHANGED imgOutcome
  /\ UNCHANGED <<imgInput, imgOptions, imgBuffer>>
  /\ UNCHANGED faceVars

\* toBuffer() resolved with the JPEG: on to `await sharp(buffer).metadata()`
processImageForDisplay_encoded ==
  /\ imgPc = "encoding"
  /\ \E size \in SharpResize(imgInput.width, imgInput.height, imgResize) :
       imgBuffer' = size
  /\ imgPc' = "finalMetadata"
  /\ UNCHANGED <<imgInput, imgOptions, imgResize, imgSteps, imgOutcome>>
  /\ UNCHANGED faceVars

\* toBuffer() rejected: the exception goes to the caller
processImageForDisplay_encodeFailed ==
  /\ imgPc = "encoding"
  /\ ImageThrow(ERR_SHARP_ENCODE)
  /\ UNCHANGED <<imgInput, imgOptions, imgResize, imgSteps, imgBuffer>>
  /\ UNCHANGED faceVars

\* the metadata of the JPEG resolved: return the ProcessedImage
processImageForDisplay_return ==
  /\ imgPc = "finalMetadata"
  /\ imgOutcome' =
       Returned(ProcessedImage(imgBuffer, imgResize.width, imgResize.height,
                               imgInput.width, imgInput.height))
  /\ imgPc' = "idle"
  /\ UNCHANGED <<imgInput, imgOptions, imgResize, imgSteps, imgBuffer>>
  /\ UNCHANGED faceVars

\* ------------------------------------------------------------------ matching

\* the self-similarity check: compareFaces of an embedding with itself
selfSimilarityCheck ==
  /\ "self" \notin matchDone
  /\ selfSimilarity' = compareFaces(matchQuery, matchQuery)
  /\ matchDone' = matchDone \cup {"self"}
  /\ UNCHANGED <<matchQuery, matchCandidates, matchThreshold, matchRanked, matchFound,
                 matchResult>>

\* "Find Person in Group Photo": score every face of the group against the
\* selfie, sort best first, and report the person found when the best one
\* reaches 0.4; skipped for a group without faces
findPersonInGroup ==
  /\ "rank" \notin matchDone
  /\ Len(matchCandidates) > 0
  /\ LET matches == SortBySimilarity(ScoreCandidates(matchQuery, matchCandidates))
     IN /\ matchRanked' = matches
        /\ matchFound' = IsMatch(matches[1].similarity, DEFAULT_MATCH_THRESHOLD)
  /\ matchDone' = matchDone \cup {"rank"}
  /\ UNCHANGED <<matchQuery, matchCandidates, matchThreshold, selfSimilarity, matchResult>>

\* match(queryEmbedding, candidates, threshold) applied to the inputs
matchQueryAgainstCandidates ==
  /\ "match" \notin matchDone
  /\ matchResult' = match(matchQuery, matchCandidates, matchThreshold)
  /\ matchDone' = matchDone \cup {"match"}
  /\ UNCHANGED <<matchQuery, matchCandidates, matchThreshold, selfSimilarity, matchRanked,
                 matchFound>>

\* ------------------------------------------------------- ingestion pipeline

\* the job of worker w has made every write that precedes the ready status: the
\* display path, the faces count and one row per face
WritesDone(w) ==
  /\ wWrites[w] = {"display", "facesCount"}
  /\ wInserted[w] = Len(NewPhotoEmbeddings(wPhoto[w], wResult[w]))

\* pending -> processing: one conditional update, `set status = 'processing'
\* where id = p and <claimable>`; the worker whose update changes no row has
\* lost the claim
claimPhoto(w, p) ==
  /\ wPc[w] = "idle"
  /\ wPhoto' = [wPhoto EXCEPT ![w] = p]
  /\ IF Claimable(photos[p])
       THEN /\ photos' = [photos EXCEPT ![p].status = "processing"]
            /\ wClaim' = [wClaim EXCEPT ![w] = "won"]
            /\ wPc' = [wPc EXCEPT ![w] = "stage"]
            /\ wResult' = [wResult EXCEPT ![w] = NoResult]
            /\ wWrites' = [wWrites EXCEPT ![w] = {}]
            /\ wInserted' = [wInserted EXCEPT ![w] = 0]
       ELSE /\ wClaim' = [wClaim EXCEPT ![w] = "lost"]
            /\ UNCHANGED <<photos, wPc, wResult, wWrites, wInserted>>
  /\ UNCHANGED photoEmbeddings

\* the image transform and the embedding extraction both succeeded
stageSucceeded(w, results) ==
  /\ wPc[w] = "stage"
  /\ \E resultFace \in results :
       wResult' = [wResult EXCEPT ![w] = PhotoProcessingResult(resultFace)]
  /\ wPc' = [wPc EXCEPT ![w] = "writing"]
  /\ UNCHANGED <<photos, photoEmbeddings, wPhoto, wClaim, wWrites, wInserted>>

\* processing -> failed: a hard error of the transform or the extraction (a
\* corrupt image, a storage error, a timeout); one update sets the status,
\* counts the retry and records the error
stageFailed(w) ==
  /\ wPc[w] = "stage"
  /\ photos' = [photos EXCEPT ![wPhoto[w]] =
                  [@ EXCEPT !.status = "failed",
                            !.retryCount = @ + 1,
                            !.processingError = ERR_DETECT]]
  /\ wPc' = [wPc EXCEPT ![w] = "idle"]
  /\ UNCHANGED <<photoEmbeddings, wPhoto, wClaim, wResult, wWrites, wInserted>>

\* persist the display asset location
writeDisplayPath(w) ==
  /\ wPc[w] = "writing"
  /\ "display" \notin wWrites[w]
  /\ photos' = [photos EXCEPT ![wPhoto[w]].storagePathDisplay = "stored"]
  /\ wWrites' = [wWrites EXCEPT ![w] = @ \cup {"display"}]
  /\ UNCHANGED <<photoEmbeddings, wPc, wPhoto, wClaim, wResult, wInserted>>

\* set facesCount
writeFacesCount(w) ==
  /\ wPc[w] = "writing"
  /\ "facesCount" \notin wWrites[w]
  /\ photos' = [photos EXCEPT ![wPhoto[w]].facesCount = PhotoRowUpdate(wResult[w])]
  /\ wWrites' = [wWrites EXCEPT ![w] = @ \cup {"facesCount"}]
  /\ UNCHANGED <<photoEmbeddings, wPc, wPhoto, wClaim, wResult, wInserted>>

\* insert the next embedding row (append; existing rows stay)
insertEmbedding(w) ==
  /\ wPc[w] = "writing"
  /\ wInserted[w] < Len(NewPhotoEmbeddings(wPhoto[w], wResult[w]))
  /\ photoEmbeddings' =
       [photoEmbeddings EXCEPT ![wPhoto[w]] =
          Append(@, NewPhotoEmbeddings(wPhoto[w], wResult[w])[wInserted[w] + 1])]
  /\ wInserted' = [wInserted EXCEPT ![w] = @ + 1]
  /\ UNCHANGED <<photos, wPc, wPhoto, wClaim, wResult, wWrites>>

\* processing -> ready, once every other write of the job is made
setReady(w) ==
  /\ wPc[w] = "writing"
  /\ WritesDone(w)
  /\ photos' = [photos EXCEPT ![wPhoto[w]].status = "ready"]
  /\ wPc' = [wPc EXCEPT ![w] = "idle"]
  /\ UNCHANGED <<photoEmbeddings, wPhoto, wClaim, wResult, wWrites, wInserted>>

\* ------------------------------------------------------- selfie registration

\* a selfie of user u arrives: `await validateSelfie(selfieBuffer)` is called
registerSelfie(r, u) ==
  /\ regPc[r] = "idle"
  /\ Len(userEmbeddings) + Cardinality({q \in Registrants : regPc[q] # "idle"}) < MaxSelfies
  /\ regPc' = [regPc EXCEPT ![r] = "validating"]
  /\ regUser' = [regUser EXCEPT ![r] = u]
  /\ regOutcome' = [regOutcome EXCEPT ![r] = "none"]
  /\ UNCHANGED <<userEmbeddings, regResult>>

\* validateSelfie has resolved; `if (!result.isValid) throw new Error(result.error)`,
\* else `await db.insert(userEmbeddings)` is called
registerSelfie_validated(r, results) ==
  /\ regPc[r] = "validating"
  /\ \E resultFace \in results :
       LET result == SelfieValidationResult(resultFace, NoOptions)
       IN /\ regResult' = [regResult EXCEPT ![r] = result]
          /\ IF result.isValid
               THEN /\ regPc' = [regPc EXCEPT ![r] = "inserting"]
                    /\ UNCHANGED regOutcome
               ELSE /\ regPc' = [regPc EXCEPT ![r] = "idle"]
                    /\ regOutcome' = [regOutcome EXCEPT ![r] = "rejected"]
  /\ UNCHANGED <<userEmbeddings, regUser>>

\* the insert has rejected (the database refused the row or could not be
\* reached): the error goes to the caller and no row is stored
registerSelfie_insertFailed(r) ==
  /\ regPc[r] = "inserting"
  /\ regPc' = [regPc EXCEPT ![r] = "idle"]
  /\ regOutcome' = [regOutcome EXCEPT ![r] = "insertFailed"]
  /\ UNCHANGED <<userEmbeddings, regUser, regResult>>

\* the insert has resolved: the validated embedding is stored
registerSelfie_inserted(r) ==
  /\ regPc[r] = "inserting"
  /\ userEmbeddings' =
       Append(userEmbeddings, NewUserEmbedding(regUser[r], regResult[r].embedding))
  /\ regPc' = [regPc EXCEPT ![r] = "idle"]
  /\ regOutcome' = [regOutcome EXCEPT ![r] = "stored"]
  /\ UNCHANGED <<regUser, regResult>>

\* ---------------------------------------------------------- creator requests

\* no call of a reviewer is under way: the admins review one after the other
NoReviewUnderWay == \A a \in Reviewers : crPc[a] = "idle"

\* the call of reviewer a returns
ReviewReturns(a) ==
  /\ crPc' = [crPc EXCEPT ![a] = "idle"]
  /\ crOp' = [crOp EXCEPT ![a] = "none"]
  /\ crData' = [crData EXCEPT ![a] = NoData]
  /\ crBefore' = [crBefore EXCEPT ![a] = "null"]

\* submitRequest: requireMember, then one insert; the handler has no catch
\* clause, so a refused insert goes to the caller
submitRequest(u) ==
  /\ \/ Len(creatorRequest) < MaxRequests
     \/ users[u] # "member"
     \/ ViolatesPendingRequestUnique(creatorRequest, NewCreatorRequest(u))
  /\ IF users[u] # "member"
       THEN /\ submitOutcome' = [submitOutcome EXCEPT ![u] = Threw(ERR_MEMBER_REQUIRED)]
            /\ UNCHANGED creatorRequest
       ELSE IF ViolatesPendingRequestUnique(creatorRequest, NewCreatorRequest(u))
         THEN /\ submitOutcome' = [submitOutcome EXCEPT ![u] = Threw(ERR_PENDING_UNIQUE)]
              /\ UNCHANGED creatorRequest
         ELSE /\ creatorRequest' = Append(creatorRequest, NewCreatorRequest(u))
              /\ submitOutcome' =
                   [submitOutcome EXCEPT ![u] = Returned(Len(creatorRequest) + 1)]
  /\ UNCHANGED <<users, crPc, crOp, crData, crBefore>>

\* approveRequest up to `await db.update(user)...`
approveRequest(a, userId, requestId) ==
  /\ NoReviewUnderWay
  /\ crPc' = [crPc EXCEPT ![a] = "updatingUser"]
  /\ crOp' = [crOp EXCEPT ![a] = "approveRequest"]
  /\ crData' = [crData EXCEPT ![a] = [userId |-> userId, requestId |-> requestId]]
  /\ crBefore' = [crBefore EXCEPT ![a] = users[userId]]
  /\ UNCHANGED <<users, creatorRequest, submitOutcome>>

\* the update of the user resolved: role is 'creator';
\* `await db.update(creatorRequest)...` is called
approveRequest_userUpdated(a) ==
  /\ crPc[a] = "updatingUser"
  /\ users' = [users EXCEPT ![crData[a].userId] = "creator"]
  /\ crPc' = [crPc EXCEPT ![a] = "updatingRequest"]
  /\ UNCHANGED <<creatorRequest, submitOutcome, crOp, crData, crBefore>>

\* the update of the user rejected: the catch clause logs and the call returns
approveRequest_userUpdateFailed(a) ==
  /\ crPc[a] = "updatingUser"
  /\ ReviewReturns(a)
  /\ UNCHANGED <<users, creatorRequest, submitOutcome>>

\* the update of the request resolved: the row with this id, if any, is approved
approveRequest_requestUpdated(a) ==
  /\ crPc[a] = "updatingRequest"
  /\ creatorRequest' =
       SetRequestStatus(creatorRequest, crData[a].requestId, "approved", a)
  /\ ReviewReturns(a)
  /\ UNCHANGED <<users, submitOutcome>>

\* the update of the request rejected: the catch clause logs and the call
\* returns; the update of the user stays
approveRequest_requestUpdateFailed(a) ==
  /\ crPc[a] = "updatingRequest"
  /\ ReviewReturns(a)
  /\ UNCHANGED <<users, creatorRequest, submitOutcome>>

\* rejectRequest up to `await db.update(creatorRequest)...`
rejectRequest(a, requestId) ==
  /\ NoReviewUnderWay
  /\ crPc' = [crPc EXCEPT ![a] = "rejecting"]
  /\ crOp' = [crOp EXCEPT ![a] = "rejectRequest"]
  /\ crData' = [crData EXCEPT ![a] = [userId |-> "null", requestId |-> requestId]]
  /\ UNCHANGED <<users, creatorRequest, submitOutcome, crBefore>>

\* the update resolved: the row with this id, if any, is rejected
rejectRequest_updated(a) ==
  /\ crPc[a] = "rejecting"
  /\ creatorRequest' =
       SetRequestStatus(creatorRequest, crData[a].requestId, "rejected", a)
  /\ ReviewReturns(a)
  /\ UNCHANGED <<users, submitOutcome>>

\* the update rejected: the catch clause logs and the call returns
rejectRequest_updateFailed(a) ==
  /\ crPc[a] = "rejecting"
  /\ ReviewReturns(a)
  /\ UNCHANGED <<users, creatorRequest, submitOutcome>>

\* ------------------------------------------------------------ specifications

\* concurrent callers, a few representative inputs
Next ==
  \/ \E p \in InitCallers : initHuman(p) /\ UNCHANGED otherThanFace
  \/ \E p \in InitCallers : initHuman_loaded(p) /\ UNCHANGED otherThanFace
  \/ \E p \in InitCallers : initHuman_loadFailed(p) /\ UNCHANGED otherThanFace
  \/ \E p \in InitCallers : initHuman_warmedUp(p) /\ UNCHANGED otherThanFace
  \/ \E p \in InitCallers : initHuman_warmupFailed(p) /\ UNCHANGED otherThanFace
  \/ \E c \in Callers : detectFaces(c) /\ UNCHANGED otherThanFace
  \/ \E c \in Callers : detectFaces_detected(c, FewResults) /\ UNCHANGED otherThanFace
  \/ \E c \in Callers : detectFaces_failed(c) /\ UNCHANGED otherThanFace
  \/ \E c \in Callers, b \in Images : processPhotoForEmbeddings(c, b) /\ UNCHANGED otherThanFace
  \/ \E c \in Callers : processPhotoForEmbeddings_detected(c, FewResults) /\ UNCHANGED otherThanFace
  \/ \E c \in Callers : processPhotoForEmbeddings_failed(c) /\ UNCHANGED otherThanFace
  \/ \E c \in Callers, b \in Images, o \in FewOptions : validateSelfie(c, b, o) /\ UNCHANGED otherThanFace
  \/ \E c \in Callers : validateSelfie_detected(c, FewResults) /\ UNCHANGED otherThanFace
  \/ \E c \in Callers : validateSelfie_failed(c) /\ UNCHANGED otherThanFace

Spec == Init /\ [][Next]_vars

\* the state once `await initHuman()` has returned, as in the tests' beforeAll
HumanReady ==
  /\ isInitialized = TRUE
  /\ config = humanConfig
  /\ initPc = [p \in InitCallers |-> "idle"]
  /\ initOutcome = [p \in InitCallers |-> IF p = "i1" THEN "initialized" ELSE "none"]
  /\ initCalls = 1
  /\ loadCount = 1
  /\ warmupCount = 1
  /\ initFailed = FALSE
  /\ pc = [c \in Callers |-> "idle"]
  /\ op = [c \in Callers |-> "none"]
  /\ options = [c \in Callers |-> NoOptions]
  /\ tensor = [c \in Callers |-> "none"]
  /\ disposals = [c \in Callers |-> 0]
  /\ ranWith = [c \in Callers |-> NotRun]
  /\ backend = [c \in Callers |-> "notCalled"]
  /\ detected = [c \in Callers |-> <<>>]
  /\ outcome = [c \in Callers |-> NoOutcome]
  /\ numTensors = 0

\* that state, nothing else called yet
InitReady ==
  HumanReady /\ ImageIdle /\ MatchIdle /\ PhotosPending /\ NoSelfies /\ NoRequests

\* one caller making its calls one after the other on the initialised library,
\* with every image, every options argument and every backend result
NextSeq ==
  \/ \E b \in Images : processPhotoForEmbeddings("c1", b) /\ UNCHANGED otherThanFace
  \/ processPhotoForEmbeddings_detected("c1", Results) /\ UNCHANGED otherThanFace
  \/ processPhotoForEmbeddings_failed("c1") /\ UNCHANGED otherThanFace
  \/ \E b \in Images, o \in SelfieOptions : validateSelfie("c1", b, o) /\ UNCHANGED otherThanFace
  \/ validateSelfie_detected("c1", Results) /\ UNCHANGED otherThanFace
  \/ validateSelfie_failed("c1") /\ UNCHANGED otherThanFace

SpecSeq == InitReady /\ [][NextSeq]_vars

\* the image transform on its own: calls one after the other, with every input
\* buffer and every options argument
NextImage ==
  \/ \E b \in InputBuffers, o \in ProcessingOptions : processImageForDisplay(b, o) /\ UNCHANGED otherThanImage
  \/ processImageForDisplay_unreadable /\ UNCHANGED otherThanImage
  \/ processImageForDisplay_metadata /\ UNCHANGED otherThanImage
  \/ processImageForDisplay_encoded /\ UNCHANGED otherThanImage
  \/ processImageForDisplay_encodeFailed /\ UNCHANGED otherThanImage
  \/ processImageForDisplay_return /\ UNCHANGED otherThanImage

SpecImage == InitReady /\ [][NextImage]_vars


\* the matching applied to every query, candidate list and threshold
InitMatch ==
  /\ HumanReady
  /\ ImageIdle
  /\ matchQuery \in Queries
  /\ matchCandidates \in CandidateLists
  /\ matchThreshold \in Thresholds
  /\ MatchPending
  /\ PhotosPending
  /\ NoSelfies
  /\ NoRequests

NextMatch ==
  \/ selfSimilarityCheck /\ UNCHANGED otherThanMatch
  \/ findPersonInGroup /\ UNCHANGED otherThanMatch
  \/ matchQueryAgainstCandidates /\ UNCHANGED otherThanMatch

SpecMatch == InitMatch /\ [][NextMatch]_vars

\* the ingestion pipeline: concurrent workers over the uploaded photos
NextIngest ==
  \/ \E w \in Workers, p \in PhotoIds : claimPhoto(w, p) /\ UNCHANGED otherThanIngest
  \/ \E w \in Workers : stageSucceeded(w, IngestResults) /\ UNCHANGED otherThanIngest
  \/ \E w \in Workers : stageFailed(w) /\ UNCHANGED otherThanIngest
  \/ \E w \in Workers : writeDisplayPath(w) /\ UNCHANGED otherThanIngest
  \/ \E w \in Workers : writeFacesCount(w) /\ UNCHANGED otherThanIngest
  \/ \E w \in Workers : insertEmbedding(w) /\ UNCHANGED otherThanIngest
  \/ \E w \in Workers : setReady(w) /\ UNCHANGED otherThanIngest

SpecIngest == InitReady /\ [][NextIngest]_vars

\* selfie registrations of several users, one after the other and concurrently
NextSelfie ==
  \/ \E r \in Registrants, u \in UserIds : registerSelfie(r, u) /\ UNCHANGED otherThanSelfie
  \/ \E r \in Registrants : registerSelfie_validated(r, SelfieResults) /\ UNCHANGED otherThanSelfie
  \/ \E r \in Registrants : registerSelfie_inserted(r) /\ UNCHANGED otherThanSelfie
  \/ \E r \in Registrants : registerSelfie_insertFailed(r) /\ UNCHANGED otherThanSelfie

SpecSelfie == InitReady /\ [][NextSelfie]_vars

\* members submitting creator requests while admins approve and reject them
NextRequests ==
  \/ \E u \in UserIds : submitRequest(u) /\ UNCHANGED otherThanRequests
  \/ \E a \in Reviewers, u \in UserIds, id \in RequestIds :
       approveRequest(a, u, id) /\ UNCHANGED otherThanRequests
  \/ \E a \in Reviewers : approveRequest_userUpdated(a) /\ UNCHANGED otherThanRequests
  \/ \E a \in Reviewers : approveRequest_userUpdateFailed(a) /\ UNCHANGED otherThanRequests
  \/ \E a \in Reviewers : approveRequest_requestUpdated(a) /\ UNCHANGED otherThanRequests
  \/ \E a \in Reviewers : approveRequest_requestUpdateFailed(a) /\ UNCHANGED otherThanRequests
  \/ \E a \in Reviewers, id \in RequestIds : rejectRequest(a, id) /\ UNCHANGED otherThanRequests
  \/ \E a \in Reviewers : rejectRequest_updated(a) /\ UNCHANGED otherThanRequests
  \/ \E a \in Reviewers : rejectRequest_updateFailed(a) /\ UNCHANGED otherThanRequests

SpecRequests == InitReady /\ [][NextRequests]_vars

\* ------------------------------------------------------------------ claims

\* the thresholds in force for caller c's validateSelfie call
MinConfidence(c) ==
  IF options[c].minConfidence = Undefined THEN 60 ELSE options[c].minConfidence
MinRealScore(c) ==
  IF options[c].minRealScore = Undefined THEN 50 ELSE options[c].minRealScore
MinLiveScore(c) ==
  IF options[c].minLiveScore = Undefined THEN 50 ELSE options[c].minLiveScore

\* caller c's validateSelfie call has returned a SelfieValidationResult
SelfieReturned(c) ==
  op[c] = "validateSelfie" /\ pc[c] = "idle" /\ outcome[c].kind = "returned"

\* caller c's processPhotoForEmbeddings call has returned a PhotoProcessingResult
PhotoReturned(c) ==
  op[c] = "processPhotoForEmbeddings" /\ pc[c] = "idle" /\ outcome[c].kind = "returned"

\* a missing anti-spoof or liveness score counts as 0
ScoreOf(v) == IF v = Undefined THEN 0 ELSE v

\* the checks of the selfie gate, numbered as in the specification, that the
\* detection result of caller c fails (3 to 6 look at the first face)
FailedChecks(c) ==
  LET faces == detected[c]
  IN {k \in 1..6 :
        \/ k = 1 /\ Len(faces) = 0
        \/ k = 2 /\ Len(faces) > 1
        \/ k = 3 /\ Len(faces) >= 1 /\ faces[1].faceScore < MinConfidence(c)
        \/ k = 4 /\ Len(faces) >= 1
                 /\ (faces[1].embedding = NoEmbedding
                     \/ faces[1].embedding.dim # EMBEDDING_DIMENSIONS)
        \/ k = 5 /\ Len(faces) >= 1 /\ ScoreOf(faces[1].real) < MinRealScore(c)
        \/ k = 6 /\ Len(faces) >= 1 /\ ScoreOf(faces[1].live) < MinLiveScore(c)}

CheckError ==
  <<ERR_NO_FACE, ERR_MULTIPLE_FACES, ERR_NOT_CLEAR, ERR_NO_FEATURES, ERR_FAKE, ERR_RECORDING>>

\* C1: a validateSelfie call whose detection result fails some check returns
\* isValid = false, no embedding, and the error of the lowest-numbered failed
\* check; with zero faces that is always the "No face detected" error.
C1_FirstFailedCheckReported ==
  \A c \in Callers :
    SelfieReturned(c) /\ FailedChecks(c) # {} =>
      LET first == CHOOSE k \in FailedChecks(c) : \A j \in FailedChecks(c) : k <= j
          v == outcome[c].value
      IN /\ v.isValid = FALSE
         /\ v.embedding = NoEmbedding
         /\ v.error = CheckError[first]
         /\ (Len(detected[c]) = 0 => v.error = ERR_NO_FACE)

\* a returned rejection whose detection result fails three checks at once
C1_Witness ==
  \E c \in Callers :
    /\ SelfieReturned(c)
    /\ Cardinality(FailedChecks(c)) >= 3
    /\ 2 \notin FailedChecks(c)
    /\ outcome[c].value.isValid = FALSE

\* C2: a call of processPhotoForEmbeddings or validateSelfie that decoded a tensor
\* has disposed it exactly once when it is over, however it ended; the tensors
\* still held are those of the calls in flight, none when no call is in flight.
C2_TensorsDisposed ==
  /\ \A c \in Callers :
       /\ tensor[c] = "live" => pc[c] = "detecting"
       /\ pc[c] = "idle" =>
            /\ tensor[c] \in {"none", "disposed"}
            /\ disposals[c] = (IF tensor[c] = "disposed" THEN 1 ELSE 0)
            /\ (backend[c] \in {"resolved", "rejected"} /\ op[c] # "detectFaces"
                  => tensor[c] = "disposed")
       /\ pc[c] = "detecting" /\ op[c] # "detectFaces" =>
            tensor[c] = "live" /\ disposals[c] = 0
  /\ numTensors = Cardinality({c \in Callers : tensor[c] = "live"})
  /\ ((\A c \in Callers : pc[c] = "idle") => numTensors = 0)

\* two finished calls, one that returned and one that the backend's exception
\* ended, both with their tensor disposed
C2_Witness ==
  \E c, d \in Callers :
    /\ pc[c] = "idle" /\ outcome[c].kind = "returned" /\ tensor[c] = "disposed"
    /\ pc[d] = "idle" /\ outcome[d] = Threw(ERR_DETECT) /\ tensor[d] = "disposed"
    /\ op[d] = "validateSelfie"
    /\ numTensors = 0

\* C3: as long as no initHuman call has completed, every detectFaces,
\* processPhotoForEmbeddings and validateSelfie call made so far has thrown the
\* "not initialized" error, human.detect has not been invoked, and no tensor has
\* been decoded.
C3_NotInitializedFailsFirst ==
  ~isHumanInitialized =>
    /\ numTensors = 0
    /\ \A c \in Callers :
         /\ pc[c] = "idle"
         /\ backend[c] = "notCalled"
         /\ ~ranWith[c].ran
         /\ tensor[c] = "none"
         /\ op[c] # "none" => outcome[c] = Threw(ERR_NOT_INITIALIZED)

\* calls made while the first initHuman call is still warming up
C3_Witness ==
  /\ ~isHumanInitialized
  /\ \E p \in InitCallers : initPc[p] = "warming"
  /\ \E c, d \in Callers :
       /\ op[c] = "validateSelfie" /\ outcome[c] = Threw(ERR_NOT_INITIALIZED)
       /\ op[d] \in {"processPhotoForEmbeddings", "detectFaces"}
       /\ outcome[d] = Threw(ERR_NOT_INITIALIZED)

\* C4: an initHuman call made once isInitialized is true returns at once: it
\* invokes neither human.load() nor human.warmup() and changes nothing but the
\* caller's own return.
C4_InitIdempotent ==
  [][isInitialized /\ initCalls' = initCalls + 1 =>
       /\ loadCount' = loadCount
       /\ warmupCount' = warmupCount
       /\ isInitialized'
       /\ initPc' = initPc
       /\ config' = config
       /\ UNCHANGED callVars
       /\ \E p \in InitCallers : initOutcome' = [initOutcome EXCEPT ![p] = "already"]]_vars

\* an initHuman call has returned early after another one had initialised
C4_Witness ==
  /\ isInitialized
  /\ loadCount = 1 /\ warmupCount = 1
  /\ \E p, q \in InitCallers :
       initOutcome[p] = "initialized" /\ initOutcome[q] = "already"
  /\ initCalls >= 3

\* C5: unless a load or warmup has failed, human.load() and human.warmup() are
\* each invoked at most once, however the initHuman calls interleave.
C5_LoadAndWarmupOnce ==
  ~initFailed => loadCount <= 1 /\ warmupCount <= 1

\* caller c's processPhotoForEmbeddings call is over
PhotoOver(c) == op[c] = "processPhotoForEmbeddings" /\ pc[c] = "idle"

\* C6: a processPhotoForEmbeddings call whose detection resolved with no face
\* has returned facesCount = 0 and an empty faces list; it has not thrown.
C6_NoFaceIsNormal ==
  \A c \in Callers :
    PhotoOver(c) /\ backend[c] = "resolved" /\ detected[c] = <<>> =>
      /\ outcome[c].kind = "returned"
      /\ outcome[c].value.facesCount = 0
      /\ outcome[c].value.faces = <<>>

\* such a call
C6_Witness ==
  \E c \in Callers :
    /\ PhotoOver(c) /\ backend[c] = "resolved" /\ detected[c] = <<>>
    /\ outcome[c].kind = "returned"

\* the positions in caller c's detection result whose face has an embedding of
\* length 1024
ValidAt(c) ==
  {i \in 1..Len(detected[c]) :
     /\ detected[c][i].embedding # NoEmbedding
     /\ detected[c][i].embedding.dim = 1024}

\* the k-th of these positions, in backend order
KthValid(c, k) ==
  CHOOSE i \in ValidAt(c) : Cardinality({j \in ValidAt(c) : j < i}) = k - 1

\* C7: the faces processPhotoForEmbeddings returns are the backend's faces with
\* an embedding of length 1024, in backend order and with nothing else dropped
\* or added; facesCount is the length of the list.
C7_ExactlyValidFacesInOrder ==
  \A c \in Callers :
    PhotoOver(c) /\ backend[c] = "resolved" =>
      /\ outcome[c].kind = "returned"
      /\ LET v == outcome[c].value
         IN /\ v.facesCount = Len(v.faces)
            /\ Len(v.faces) = Cardinality(ValidAt(c))
            /\ \A k \in 1..Len(v.faces) :
                 /\ v.faces[k].embedding = detected[c][KthValid(c, k)].embedding
                 /\ v.faces[k].confidence = detected[c][KthValid(c, k)].faceScore
                 /\ v.faces[k].embedding.dim = 1024

\* a result that dropped the first face, whose embedding has another length, and
\* kept the second
C7_Witness ==
  \E c \in Callers :
    /\ PhotoReturned(c)
    /\ Len(detected[c]) = 2
    /\ Cardinality(ValidAt(c)) = 1
    /\ 2 \in ValidAt(c)
    /\ detected[c][1].embedding # NoEmbedding
    /\ outcome[c].value.facesCount = 1

\* C8 as stated: a backend failure leaves a thrown error and no result, and a
\* returned result with facesCount = 0 means that detection resolved and found
\* no face.
C8_ZeroMeansNoFaceFound ==
  \A c \in Callers :
    PhotoOver(c) =>
      /\ backend[c] \in {"decodeThrew", "rejected"} => outcome[c].kind = "threw"
      /\ outcome[c].kind = "returned" /\ outcome[c].value.facesCount = 0 =>
           backend[c] = "resolved" /\ detected[c] = <<>>

\* C8 amended: a backend failure leaves a thrown error and no result, and a
\* returned result with facesCount = 0 means that detection resolved and gave
\* no face with an embedding of length 1024 (no face, or only dropped ones).
C8_ZeroMeansNoValidFace ==
  \A c \in Callers :
    PhotoOver(c) =>
      /\ backend[c] \in {"decodeThrew", "rejected"} => outcome[c].kind = "threw"
      /\ outcome[c].kind = "returned" => backend[c] = "resolved"
      /\ outcome[c].kind = "returned" /\ outcome[c].value.facesCount = 0 =>
           backend[c] = "resolved" /\ ValidAt(c) = {}

\* two finished calls side by side: one ended by the backend's exception, one
\* that returned facesCount = 0 after the filter dropped the only face
C8_Witness ==
  \E c, d \in Callers :
    /\ PhotoOver(c) /\ backend[c] = "rejected" /\ outcome[c].kind = "threw"
    /\ PhotoReturned(d) /\ outcome[d].value.facesCount = 0 /\ Len(detected[d]) = 1

\* C9: every detection that a processPhotoForEmbeddings call started ran with
\* anti-spoof and liveness disabled, whatever calls came before it.
C9_SpoofChecksOnlyInSelfie ==
  \A c \in Callers :
    op[c] = "processPhotoForEmbeddings" /\ ranWith[c].ran =>
      ~ranWith[c].antispoof /\ ~ranWith[c].liveness

\* C10: validateSelfie returns isValid = true exactly when one face is detected,
\* with faceScore >= minConfidence, an embedding of length 1024, anti-spoof score
\* >= minRealScore and liveness score >= minLiveScore (a missing score is 0); the
\* accepted result carries that face's embedding and the two scores and no
\* error; without options the thresholds are 0.6, 0.5 and 0.5.
C10_AcceptedIffAllChecksPass ==
  \A c \in Callers :
    SelfieReturned(c) =>
      LET faces == detected[c]
          v == outcome[c].value
          minConfidence == IF options[c] = NoOptions THEN 60 ELSE MinConfidence(c)
          minRealScore == IF options[c] = NoOptions THEN 50 ELSE MinRealScore(c)
          minLiveScore == IF options[c] = NoOptions THEN 50 ELSE MinLiveScore(c)
          passes ==
            /\ Len(faces) = 1
            /\ faces[1].faceScore >= minConfidence
            /\ faces[1].embedding # NoEmbedding
            /\ faces[1].embedding.dim = 1024
            /\ ScoreOf(faces[1].real) >= minRealScore
            /\ ScoreOf(faces[1].live) >= minLiveScore
      IN /\ v.isValid <=> passes
         /\ v.isValid =>
              /\ v.embedding = faces[1].embedding
              /\ v.realScore = ScoreOf(faces[1].real)
              /\ v.liveScore = ScoreOf(faces[1].live)
              /\ v.error = NoError

\* a selfie accepted without options, each score equal to its default threshold
C10_Witness ==
  \E c \in Callers :
    /\ SelfieReturned(c)
    /\ options[c] = NoOptions
    /\ outcome[c].value.isValid
    /\ detected[c][1].faceScore = 60
    /\ detected[c][1].real = 50
    /\ detected[c][1].live = 50

\* C11: a validateSelfie call whose detection result holds two or more faces
\* returns isValid = false with the "Multiple faces detected" error and no
\* embedding, whatever the faces' confidence, embedding, anti-spoof and liveness
\* values and whatever thresholds the options set.
C11_MultipleFacesRejected ==
  \A c \in Callers :
    SelfieReturned(c) /\ Len(detected[c]) >= 2 =>
      /\ outcome[c].value.isValid = FALSE
      /\ outcome[c].value.error = ERR_MULTIPLE_FACES
      /\ outcome[c].value.embedding = NoEmbedding
      /\ outcome[c].value.realScore = Undefined
      /\ outcome[c].value.liveScore = Undefined

\* a rejected group selfie in which each face alone would pass every check, under
\* the most lenient thresholds
C11_Witness ==
  \E c \in Callers :
    /\ SelfieReturned(c)
    /\ Len(detected[c]) = 2
    /\ \A i \in 1..2 : detected[c][i] = GoodFace
    /\ options[c].minRealScore = 0 /\ options[c].minLiveScore = 0
    /\ options[c].minConfidence = Undefined
    /\ outcome[c].value.error = ERR_MULTIPLE_FACES

\* the processImageForDisplay call has returned a ProcessedImage
ImageReturned == imgPc = "idle" /\ imgOutcome.kind = "returned"

\* the target height in force for the call: 1080 unless the options give one
TargetHeightOf ==
  IF imgOptions.targetHeight = Undefined THEN 1080 ELSE imgOptions.targetHeight

\* the source image of the call has a positive width and height
PositiveDimensions ==
  imgInput.format = "image" /\ imgInput.width >= 1 /\ imgInput.height >= 1

Abs(x) == IF x < 0 THEN -x ELSE x

\* C12: for a source image with positive dimensions and a target height at least
\* its height, processImageForDisplay asks for a resize to the original width and
\* height and returns height = originalHeight and width = originalWidth; such a
\* call fails only when the encoding itself fails.
C12_NoUpscale ==
  PositiveDimensions /\ TargetHeightOf >= imgInput.height =>
    /\ imgResize # NoResize =>
         imgResize.width = imgInput.width /\ imgResize.height = imgInput.height
    /\ ImageReturned =>
         /\ imgOutcome.value.height = imgInput.height
         /\ imgOutcome.value.width = imgInput.width
         /\ imgOutcome.value.originalHeight = imgInput.height
         /\ imgOutcome.value.originalWidth = imgInput.width
    /\ imgPc = "idle" /\ imgOutcome.kind = "threw" =>
         imgOutcome.error = ERR_SHARP_ENCODE

\* a 4000 x 3000 photo returned at its own size for a target height of 4000
C12_Witness ==
  /\ ImageReturned
  /\ imgInput.width = 4000 /\ imgInput.height = 3000
  /\ imgOptions.targetHeight = 4000
  /\ imgOutcome.value.height = 3000

\* C13: every ProcessedImage that processImageForDisplay returns has a height of
\* at most the target height and at most the original height, and a width of at
\* most the original width.
C13_HeightWithinTargetAndOriginal ==
  ImageReturned =>
    /\ imgOutcome.value.height <= TargetHeightOf
    /\ imgOutcome.value.height <= imgInput.height
    /\ imgOutcome.value.width <= imgInput.width

\* a portrait photo scaled down to the target height
C13_Witness ==
  /\ ImageReturned
  /\ imgInput.width = 3000 /\ imgInput.height = 4000
  /\ imgOptions.targetHeight = 480
  /\ imgOutcome.value.height = 480
  /\ imgOutcome.value.width = 360

\* C14 as stated: the resize dimensions computed for a source image with
\* positive dimensions and a positive target height satisfy
\* |newWidth / newHeight - originalWidth / originalHeight| < 0.01.
C14_AspectRatioWithinHundredth ==
  PositiveDimensions /\ TargetHeightOf >= 1 /\ imgResize # NoResize =>
    100 * Abs(imgResize.width * imgInput.height - imgResize.height * imgInput.width)
      < imgResize.height * imgInput.height

\* C14 amended: the computed newHeight is min(targetHeight, originalHeight) and
\* newWidth is within 1/2 of newHeight * originalWidth / originalHeight, so the
\* two aspect ratios differ by at most 1 / (2 * newHeight): by less than 0.01
\* whenever newHeight is more than 50.
C14_AspectRatioWithinRounding ==
  PositiveDimensions /\ TargetHeightOf >= 1 /\ imgResize # NoResize =>
    /\ imgResize.height = (IF TargetHeightOf <= imgInput.height
                             THEN TargetHeightOf ELSE imgInput.height)
    /\ 2 * Abs(imgResize.width * imgInput.height - imgResize.height * imgInput.width)
         <= imgInput.height
    /\ imgResize.height > 50 =>
         100 * Abs(imgResize.width * imgInput.height - imgResize.height * imgInput.width)
           < imgResize.height * imgInput.height

\* a 1920 x 1080 photo at 480: the width 853.33 rounded to 853
C14_Witness ==
  /\ imgPc = "encoding"
  /\ imgInput.width = 1920 /\ imgInput.height = 1080
  /\ imgResize.height = 480
  /\ imgResize.width = 853

\* the source of the call has no usable dimensions: no image, or a width or
\* height that is missing or 0
NoDimensions ==
  /\ imgInput # NoInput
  /\ \/ imgInput.format # "image"
     \/ imgInput.width \in {Undefined, 0}
     \/ imgInput.height \in {Undefined, 0}

\* C15: a processImageForDisplay call on a source without usable dimensions
\* never reaches the resize, watermark or encode step: once the metadata is in,
\* the call is over with an error ("Could not read image dimensions" when the
\* metadata could be read) and no ProcessedImage.
C15_UnreadableFailsBeforeResize ==
  NoDimensions =>
    /\ imgPc \in {"metadata", "idle"}
    /\ imgResize = NoResize
    /\ imgSteps = {}
    /\ imgBuffer = NoBuffer
    /\ imgPc = "metadata" => imgOutcome = NoOutcome
    /\ imgPc = "idle" =>
         /\ imgOutcome.kind = "threw"
         /\ imgInput.format = "image" => imgOutcome = Threw(ERR_DIMENSIONS)

\* an image with a width but a height of 0, refused
C15_Witness ==
  /\ imgPc = "idle"
  /\ imgInput.format = "image" /\ imgInput.width = 3 /\ imgInput.height = 0
  /\ imgOutcome = Threw(ERR_DIMENSIONS)
  /\ imgSteps = {}

\* the threshold in force for the matching: 0.4 unless one is given
ThresholdOf == IF matchThreshold = Undefined THEN 40 ELSE matchThreshold

\* the similarity of the candidate with index i (0-based) to the query
ScoreOfCandidate(i) == compareFaces(matchQuery, matchCandidates[i + 1])

CandidateIndices == {i - 1 : i \in 1..Len(matchCandidates)}

\* C16: compareFaces(v, v) is exactly 1.0 for every embedding v, and a candidate
\* that holds the query embedding is ranked, and matched under any threshold up
\* to 1.0, with a score of exactly 1.0.
C16_SelfSimilarity ==
  /\ "self" \in matchDone => selfSimilarity = 100
  /\ "rank" \in matchDone =>
       \A k \in 1..Len(matchRanked) :
         matchCandidates[matchRanked[k].index + 1] = matchQuery =>
           matchRanked[k].similarity = 100
  /\ "match" \in matchDone =>
       \A i \in CandidateIndices :
         matchCandidates[i + 1] = matchQuery =>
           \E k \in 1..Len(matchResult) :
             matchResult[k] = [index |-> i, similarity |-> 100]

\* an embedding other than the zero vector compared with itself, and matched
\* against a pool that holds it under the threshold 1.0
C16_Witness ==
  /\ {"self", "match"} \subseteq matchDone
  /\ matchQuery = <<60, 80>>
  /\ selfSimilarity = 100
  /\ matchThreshold = 100
  /\ Len(matchCandidates) = 3
  /\ matchResult = <<[index |-> 1, similarity |-> 100]>>

RankedStable(list) ==
  \A k, l \in 1..Len(list) :
    k < l =>
      /\ list[k].similarity >= list[l].similarity
      /\ list[k].similarity = list[l].similarity => list[k].index < list[l].index

\* C18: the ranked list of all candidates and the list of matches are sorted by
\* score in non-increasing order, candidates with equal scores in the order
\* they had in the input; ranking drops and repeats no candidate.
C18_RankedBestFirstStable ==
  /\ "rank" \in matchDone =>
       /\ RankedStable(matchRanked)
       /\ Len(matchRanked) = Len(matchCandidates)
       /\ {matchRanked[k].index : k \in 1..Len(matchRanked)} = CandidateIndices
       /\ \A k \in 1..Len(matchRanked) :
            matchRanked[k].similarity = ScoreOfCandidate(matchRanked[k].index)
  /\ "match" \in matchDone => RankedStable(matchResult)

\* two candidates with the same score ahead of a better one in the input: the
\* better one comes out first, the two others in their input order
C18_Witness ==
  /\ {"rank", "match"} \subseteq matchDone
  /\ matchQuery = <<0, 0>>
  /\ matchCandidates = << <<109, 0>>, <<0, 109>>, <<60, 80>> >>
  /\ matchRanked = <<[index |-> 2, similarity |-> 50], [index |-> 0, similarity |-> 42],
                     [index |-> 1, similarity |-> 42]>>
  /\ Len(matchResult) = 3

\* the workers that hold photo p: their claim of it succeeded and their job is
\* not over
Holders(p) == {w \in Workers : wPc[w] # "idle" /\ wPhoto[w] = p}

\* C19: under every interleaving of the workers, a photo is held by at most one
\* worker at a time; it is in status processing exactly while a worker holds it,
\* and a worker holds a photo only through a claim that succeeded.
C19_ExclusiveClaim ==
  \A p \in PhotoIds :
    /\ Cardinality(Holders(p)) <= 1
    /\ photos[p].status = "processing" <=> Holders(p) # {}
    /\ \A w \in Holders(p) : wClaim[w] = "won"

\* one worker at work on a photo that the other has tried to claim in vain
C19_Witness ==
  \E w, v \in Workers :
    /\ w # v
    /\ wPc[w] = "writing" /\ wPhoto[w] = "p1" /\ wClaim[w] = "won"
    /\ wPc[v] = "idle" /\ wPhoto[v] = "p1" /\ wClaim[v] = "lost"
    /\ photos["p1"].retryCount = 1

TerminallyFailed(p) ==
  photos[p].status = "failed" /\ photos[p].retryCount = MaxRetries

C23_EmbeddingsFitColumns ==
  \A c \in Callers :
    /\ PhotoReturned(c) =>
         \A k \in 1..Len(outcome[c].value.faces) :
           FitsVectorColumn(outcome[c].value.faces[k].embedding)
    /\ SelfieReturned(c) /\ outcome[c].value.isValid =>
         FitsVectorColumn(outcome[c].value.embedding)

\* C24: the faces processPhotoForEmbeddings returns carry the indices
\* 0..facesCount-1 in order, so they are pairwise distinct: the index is the
\* face's position in the returned list, whatever its position in the backend's
\* detection list was.
C24_IndexIsPositionInResult ==
  \A c \in Callers :
    PhotoReturned(c) =>
      LET v == outcome[c].value
      IN /\ \A k \in 1..Len(v.faces) : v.faces[k].index = k - 1
         /\ {v.faces[k].index : k \in 1..Len(v.faces)} = {i - 1 : i \in 1..v.facesCount}
         /\ \A k, l \in 1..Len(v.faces) : k # l => v.faces[k].index # v.faces[l].index

\* the backend's first face was dropped by the filter: its second face is
\* returned with index 0
C24_Witness ==
  \E c \in Callers :
    /\ PhotoReturned(c)
    /\ Len(detected[c]) = 2
    /\ ~HasEmbedding(detected[c][1])
    /\ HasEmbedding(detected[c][2])
    /\ outcome[c].value.facesCount = 1
    /\ outcome[c].value.faces[1].index = 0
    /\ outcome[c].value.faces[1].embedding = detected[c][2].embedding

\* C25: every user has at most one creator request in status pending, and a
\* submitRequest by a user who has a pending request fails (it throws: the
\* index refuses the insert, unless requireMember or the database already
\* did) and adds no row.
C25_OnePendingRequestPerUser ==
  /\ [](\A u \in UserIds : Cardinality(PendingRequests(creatorRequest, u)) <= 1)
  /\ [][\A u \in UserIds :
          PendingRequests(creatorRequest, u) # {} =>
            /\ ~(/\ Len(creatorRequest') > Len(creatorRequest)
                 /\ creatorRequest'[Len(creatorRequest')].userId = u)
            /\ submitOutcome'[u] # submitOutcome[u] =>
                 submitOutcome'[u].kind = "threw"]_vars

\* u1 has a rejected and a pending request, and just tried to submit a third
C25_Witness ==
  /\ Len(creatorRequest) = 2
  /\ creatorRequest[1].userId = "u1" /\ creatorRequest[1].status = "rejected"
  /\ creatorRequest[2].userId = "u1" /\ creatorRequest[2].status = "pending"
  /\ users["u1"] = "member"
  /\ submitOutcome["u1"] = Threw(ERR_PENDING_UNIQUE)

\* reviewer a's call returns in this step
Returns(a) == crPc[a] # "idle" /\ crPc'[a] = "idle"

\* C26: approveRequest is all-or-nothing.  When a call approveRequest(userId,
\* requestId) returns, either the user's role is creator and the request's
\* status is approved, or the call changed neither the role nor the request,
\* also when one of its two updates failed.
C26_ApproveAllOrNothing ==
  [][\A a \in Reviewers :
       crOp[a] = "approveRequest" /\ Returns(a) =>
         LET userId == crData[a].userId
             requestId == crData[a].requestId
         IN \/ /\ users'[userId] = "creator"
               /\ RequestById(creatorRequest', requestId).status = "approved"
            \/ /\ users'[userId] = crBefore[a]
               /\ RequestById(creatorRequest', requestId) =
                    RequestById(creatorRequest, requestId)]_vars

\* C27: a creator request's status changes only out of pending.  No step changes
\* the status or the reviewer of a request that is approved or rejected, and a
\* review of such a request leaves the requester's role as it is.
C27_StatusChangesOnlyFromPending ==
  [][\A id \in DOMAIN creatorRequest :
       creatorRequest[id].status # "pending" =>
         /\ creatorRequest'[id].status = creatorRequest[id].status
         /\ creatorRequest'[id].reviewedBy = creatorRequest[id].reviewedBy
         /\ \A a \in Reviewers :
              crData[a].requestId = id /\ crData[a].userId = creatorRequest[id].userId =>
                users'[creatorRequest[id].userId] = users[creatorRequest[id].userId]]_vars

\* C28: for a source image with positive width and height and a positive target
\* height, the resize dimensions processImageForDisplay computes are both at
\* least 1, so resize() takes them and the call does not end in its parameter
\* error.
C28_ResizeDimensionsAtLeastOne ==
  PositiveDimensions /\ TargetHeightOf >= 1 =>
    /\ imgResize # NoResize => imgResize.width >= 1 /\ imgResize.height >= 1
    /\ imgPc = "idle" /\ imgOutcome.kind = "threw" => imgOutcome.error # ERR_SHARP_PARAM

\* C29: validateSelfie fails closed on missing scores.  For a single detected
\* face without an anti-spoof score, the selfie is rejected whenever
\* minRealScore > 0, and with the "fake" error and realScore 0 when the checks
\* before it pass; the same for a missing liveness score and minLiveScore; an
\* accepted selfie always carries two numbers, 0 for a score the backend left out.
C29_MissingScoresFailClosed ==
  \A c \in Callers :
    SelfieReturned(c) /\ Len(detected[c]) = 1 =>
      LET face == detected[c][1]
          v == outcome[c].value
      IN /\ face.real = Undefined /\ MinRealScore(c) > 0 =>
              /\ ~v.isValid
              /\ FailedChecks(c) \cap {3, 4} = {} =>
                   v.error = ERR_FAKE /\ v.realScore = 0
         /\ face.live = Undefined /\ MinLiveScore(c) > 0 =>
              /\ ~v.isValid
              /\ FailedChecks(c) \cap {3, 4, 5} = {} =>
                   v.error = ERR_RECORDING /\ v.liveScore = 0
         /\ v.isValid =>
              /\ v.realScore # Undefined /\ v.liveScore # Undefined
              /\ face.real = Undefined => v.realScore = 0
              /\ face.live = Undefined => v.liveScore = 0

\* a face with an anti-spoof score and no liveness score, checked against the
\* default thresholds: rejected as a recording, with liveScore 0
C29_Witness ==
  \E c \in Callers :
    /\ SelfieReturned(c)
    /\ Len(detected[c]) = 1
    /\ options[c] = NoOptions
    /\ detected[c][1].real = 50
    /\ detected[c][1].live = Undefined
    /\ ~outcome[c].value.isValid
    /\ outcome[c].value.error = ERR_RECORDING
    /\ outcome[c].value.liveScore = 0

\* C30: isHumanInitialized becomes true only in the step in which the warmup of
\* an initHuman call resolves, after that call's load resolved, and never turns
\* false again; a call whose load or warmup rejects throws and leaves the flag as
\* it is; while the flag is false every extraction and validation call throws
\* "not initialized", and an initHuman call invokes human.load() again.
C30_InitializedOnlyAfterLoadAndWarmup ==
  /\ [](~isHumanInitialized =>
          \A c \in Callers : op[c] # "none" => outcome[c] = Threw(ERR_NOT_INITIALIZED))
  /\ [][/\ isInitialized' # isInitialized =>
             /\ isInitialized'
             /\ loadCount >= 1 /\ warmupCount >= 1
             /\ \E p \in InitCallers :
                  /\ initPc[p] = "warming" /\ initPc'[p] = "idle"
                  /\ initOutcome'[p] = "initialized"
        /\ \A p \in InitCallers :
             /\ initPc[p] # "idle" /\ initPc'[p] = "idle" /\ initOutcome'[p] # "initialized" =>
                  initOutcome'[p] = "threw" /\ isInitialized' = isInitialized /\ initFailed'
             /\ ~isInitialized /\ initPc[p] = "idle" /\ initPc'[p] # "idle" =>
                  initPc'[p] = "loading" /\ loadCount' = loadCount + 1]_vars

\* one caller's three calls: the load of the first failed, the warmup of the
\* second failed, the third succeeded; a detection call made in between threw
C30_Witness ==
  /\ isHumanInitialized
  /\ initFailed
  /\ initOutcome["i1"] = "initialized"
  /\ initOutcome["i2"] = "none" /\ initPc["i2"] = "idle"
  /\ loadCount = 3 /\ warmupCount = 2
  /\ \E c \in Callers : outcome[c] = Threw(ERR_NOT_INITIALIZED)

====
